---------------------------- MODULE Spec2Model ----------------------------
(***************************************************************************)
(* GoPlus: pkg/arc (Arc / Weak, an atomically reference counted cell) and  *)
(* pkg/option (Future, a cancellable task with combinators).               *)
(*                                                                         *)
(* Arc part.  A block (arcInternal) holds a value and the atomic counter   *)
(* ref.  A handle (an Arc) holds the plain, non-atomic field ptr; a weak   *)
(* handle (a Weak) holds a ptr that is never written after construction.   *)
(* Goroutines call the methods.  Every access to shared memory (a.ptr,     *)
(* internal.ref, internal.data) is one step, so that calls on the same     *)
(* block, and on the same handle, interleave as the Go scheduler lets      *)
(* them.  Nothing in the package stops a caller from calling a method on a *)
(* handle it has already dropped, so the model's callers may.              *)
(***************************************************************************)
EXTENDS Integers, FiniteSets, Sequences, TLC

\* ------------------------------------------------------------------ bounds
MaxHandles == 3     \* Arc objects that can exist
MaxWeaks   == 1     \* Weak objects that can exist
MaxDrops   == 3     \* Drop calls that pass the nil check
MaxTasks   == 1     \* tasks that can be constructed
MaxCallers == 1     \* goroutines calling the retrieval methods of a task
MaxInputs  == 2     \* single-slot tasks made as inputs of a combinator
MaxBlocks  == 3     \* arcInternal blocks that can be allocated
MaxRefs    == 2     \* Ref objects that can exist
MaxArgs    == 2     \* arguments of a MergeArcs or ArcSlice call

Procs   == {"g1", "g2"}
Val     == {0, 1}
Blocks  == 1..MaxBlocks
Handles == 1..MaxHandles
Weaks   == 1..MaxWeaks
Refs    == 1..MaxRefs
NilPtr  == 0

VARIABLES
    \* arcInternal, per block
    ref, data,
    \* Arc.ptr per handle, number of handles made; Weak.ptr, number of weaks
    ptr, nh, wptr, nw,
    \* per goroutine: position, receiver, the locals internal and current,
    \* the value passed or taken, and what its last finished call returned
    pc, self, internal, current, arg, ret,
    \* history.  late: the running call passed its nil check on a handle on
    \* which a Drop call had returned.  dead: the running call passed its
    \* nil check on a block whose count had reached zero.  ndrops: Drop calls that passed the nil check.  nzero:
    \* decrements by Drop that observed zero.  dropped: handles on which a
    \* Drop call has returned.  zeroed: blocks whose count has reached zero
    late, dead, ndrops, nzero, dropped, zeroed,
    \* number of blocks allocated, the blocks whose value is a slice (made
    \* by MergeArcs); Ref.arc per Ref (a handle, or 0 for nil), number of
    \* Refs made
    nb, merged, rarc, nr,
    \* per goroutine: MergeArcs' arcs, values and loop index; Swap's other
    \* and temp; the receiver of Release
    arcs, values, idx, other, temp, rself,
    \* the scope the tasks are constructed with: whether its Done channel is
    \* closed, and where the call of its cancel function is ("idle" before
    \* the call, "children" once Done is closed, "returned")
    parentDone, cancelPc,
    \* futureImpl, per task: which execute method runs it ("none" before
    \* construction), the number of result slots, whether ctx is cancelled,
    \* the result slots, err, and how often close(f.done) has run
    kind, arity, ctxDone, result, err, done,
    \* the goroutine started by the constructor: its position, the case
    \* its select took, what fn returned, and the slots stored so far
    epc, branch, out, outErr, stored,
    \* per caller of a retrieval method: the method, the task, the position
    \* ("parked" in a receive or select, or the case that was received),
    \* the slots read so far, and what the call returned
    cop, ctask, cpc, cn, cret,
    \* history: the tasks on which some IsDone call has returned true; per
    \* caller, whether the completion signal was raised when its call began;
    \* per task, whether its context was cancelled when close(f.done) ran
    sawDone, cdone, cancelFirst,
    \* per task: the computation it runs ("fn", or the combinator that built
    \* it), the input tasks of the combinator, the values it has got from
    \* them and how many
    comb, ins, acc, ci,
    \* Any: per input the position of its helper goroutine and the value it
    \* got, and the buffered channel done
    hst, hval, buf,
    \* history: the tasks in the order in which close(f.done) ran
    order

arcShared == <<ref, data, ptr, nh, wptr, nw>>
arcLocal  == <<pc, self, internal, current, arg, ret, late, dead>>
arcHist   == <<ndrops, nzero, dropped, zeroed>>
extShared == <<nb, merged, rarc, nr>>
extLocal  == <<arcs, values, idx, other, temp, rself>>
extVars   == <<extShared, extLocal>>
arcVars   == <<arcShared, arcLocal, arcHist, extVars>>
taskVars  == <<parentDone, cancelPc, kind, arity, ctxDone, result, err, done,
               epc, branch, out, outErr, stored>>
callVars  == <<cop, ctask, cpc, cn, cret, sawDone, cdone, cancelFirst>>
combVars  == <<comb, ins, acc, ci, hst, hval, buf, order>>
vars      == <<arcVars, taskVars, callVars, combVars>>

\* what a goroutine's last call returned: "value" (a non-nil pointer, true),
\* "nil" (nil, false: the unavailable outcome), "void" (Drop returns nothing)
NoRet == "none"

\* the Arcs, each on a block of its own, that the ArcSlice calls in progress
\* will still make
SliceLeft ==
    Cardinality({x \in Procs \X (1..MaxArgs) :
                    /\ pc[x[1]] = "slice_new"
                    /\ idx[x[1]] < x[2] /\ x[2] <= Len(values[x[1]])})

\* the new Arcs that the calls in progress will still make
Pending ==
    Cardinality({q \in Procs : pc[q] \in {"clone_add", "clone_ret", "up_check",
                                          "map_new", "merge_deref", "merge_read",
                                          "asref_clone", "asref_add", "asref_ret"}})
    + SliceLeft

\* the blocks that the calls in progress will still allocate
PendingBlocks ==
    Cardinality({q \in Procs : pc[q] \in {"map_new", "merge_deref", "merge_read",
                                          "reset_drop", "reset_dec", "reset_nil",
                                          "reset_new"}})
    + SliceLeft

\* NewArc(value): the next block, with ref = 1, and a new Arc on it
NewArc(v) ==
    /\ nb' = nb + 1
    /\ ref' = [ref EXCEPT ![nb + 1] = 1]
    /\ data' = [data EXCEPT ![nb + 1] = v]
    /\ nh' = nh + 1
    /\ ptr' = [ptr EXCEPT ![nh + 1] = nb + 1]

\* ------------------------------------------------------------------ NewArc
\* NewArc(value): a block with ref = 1 and one handle on it
NewArcInit(v) ==
    /\ ref = [b \in Blocks |-> IF b = 1 THEN 1 ELSE 0]
    /\ data = [b \in Blocks |-> IF b = 1 THEN v ELSE 0]
    /\ nb = 1
    /\ merged = {}
    /\ ptr = [h \in Handles |-> IF h = 1 THEN 1 ELSE NilPtr]
    /\ nh = 1
    /\ wptr = [w \in Weaks |-> NilPtr]
    /\ nw = 0

ArcInit ==
    /\ \E v \in Val : NewArcInit(v)
    /\ pc = [p \in Procs |-> "idle"]
    /\ self = [p \in Procs |-> 0]
    /\ internal = [p \in Procs |-> NilPtr]
    /\ current = [p \in Procs |-> 0]
    /\ arg = [p \in Procs |-> 0]
    /\ ret = [p \in Procs |-> NoRet]
    /\ late = [p \in Procs |-> FALSE]
    /\ dead = [p \in Procs |-> FALSE]
    /\ ndrops = 0
    /\ nzero = 0
    /\ dropped = {}
    /\ zeroed = {}
    /\ rarc = [r \in Refs |-> 0]
    /\ nr = 0
    /\ arcs = [p \in Procs |-> <<>>]
    /\ values = [p \in Procs |-> <<>>]
    /\ idx = [p \in Procs |-> 0]
    /\ other = [p \in Procs |-> 0]
    /\ temp = [p \in Procs |-> NilPtr]
    /\ rself = [p \in Procs |-> 0]

\* ------------------------------------------------------- shared helpers
\* a goroutine is idle and calls a method on handle h, an Arc that exists
Call(p, h) ==
    /\ pc[p] = "idle"
    /\ h \in 1..nh

\* the nil check passed: internal := a.ptr, cast to the block
Enter(p, h, next) ==
    /\ pc' = [pc EXCEPT ![p] = next]
    /\ self' = [self EXCEPT ![p] = h]
    /\ internal' = [internal EXCEPT ![p] = ptr[h]]
    /\ ret' = [ret EXCEPT ![p] = NoRet]
    /\ late' = [late EXCEPT ![p] = h \in dropped]
    /\ dead' = [dead EXCEPT ![p] = ptr[h] \in zeroed]
    /\ UNCHANGED <<current, arg>>

\* the goroutine moves on inside its call
Step(p, next) ==
    /\ pc' = [pc EXCEPT ![p] = next]
    /\ UNCHANGED <<self, internal, current, arg, ret, late, dead>>

\* the call returns r: the goroutine's locals go out of scope
Finish(p, r) ==
    /\ pc' = [pc EXCEPT ![p] = "idle"]
    /\ self' = [self EXCEPT ![p] = 0]
    /\ internal' = [internal EXCEPT ![p] = NilPtr]
    /\ current' = [current EXCEPT ![p] = 0]
    /\ arg' = [arg EXCEPT ![p] = 0]
    /\ ret' = [ret EXCEPT ![p] = r]
    /\ late' = [late EXCEPT ![p] = FALSE]
    /\ dead' = [dead EXCEPT ![p] = FALSE]

\* atomic.AddInt64(&internal.ref, d) on block b
AddRef(b, d) == ref' = [ref EXCEPT ![b] = ref[b] + d]

\* ------------------------------------------------------------------- Clone
\* if a.ptr == nil { return nil }; internal := a.ptr
CloneCall(p, h) ==
    /\ Call(p, h)
    /\ nh + Pending < MaxHandles
    /\ IF ptr[h] = NilPtr
       THEN Finish(p, "nil")
       ELSE Enter(p, h, "clone_add")
    /\ UNCHANGED <<arcShared, arcHist, extVars, taskVars, callVars, combVars>>

\* atomic.AddInt64(&internal.ref, 1)
CloneAdd(p) ==
    /\ pc[p] = "clone_add"
    /\ AddRef(internal[p], 1)
    /\ Step(p, "clone_ret")
    /\ UNCHANGED <<data, ptr, nh, wptr, nw, arcHist, extVars, taskVars, callVars, combVars>>

\* return &Arc[T]{ptr: a.ptr}
CloneRet(p) ==
    /\ pc[p] = "clone_ret"
    /\ nh' = nh + 1
    /\ ptr' = [ptr EXCEPT ![nh + 1] = ptr[self[p]]]
    /\ Finish(p, "value")
    /\ UNCHANGED <<ref, data, wptr, nw, arcHist, extVars, taskVars, callVars, combVars>>

\* ------------------------------------------------------------------- Deref
\* if a.ptr == nil { return nil }; return &internal.data
DerefCall(p, h) ==
    /\ Call(p, h)
    /\ IF ptr[h] = NilPtr
       THEN Finish(p, "nil")
       ELSE Enter(p, h, "deref_read")
    /\ UNCHANGED <<arcShared, arcHist, extVars, taskVars, callVars, combVars>>

\* the caller reads the value through the pointer Deref returned
DerefRead(p) ==
    /\ pc[p] = "deref_read"
    /\ arg' = [arg EXCEPT ![p] = data[internal[p]]]
    /\ pc' = [pc EXCEPT ![p] = "deref_ret"]
    /\ UNCHANGED <<self, internal, current, ret, late, dead>>
    /\ UNCHANGED <<arcShared, arcHist, extVars, taskVars, callVars, combVars>>

\* the caller lets go of the pointer
DerefRet(p) ==
    /\ pc[p] = "deref_ret"
    /\ Finish(p, "value")
    /\ UNCHANGED <<arcShared, arcHist, extVars, taskVars, callVars, combVars>>

\* -------------------------------------------------------------------- Drop
\* if a.ptr == nil { return }; internal := a.ptr
DropCall(p, h) ==
    /\ Call(p, h)
    /\ ndrops < MaxDrops
    /\ IF ptr[h] = NilPtr
       THEN /\ Finish(p, "void")
            /\ dropped' = dropped \cup {h}
            /\ UNCHANGED ndrops
       ELSE /\ Enter(p, h, "drop_dec")
            /\ ndrops' = ndrops + 1
            /\ UNCHANGED dropped
    /\ UNCHANGED <<arcShared, nzero, zeroed, extVars, taskVars, callVars, combVars>>

\* whether the decrement's result releases the block: AddInt64(...) == 0
DropReleases(c) == c = 0

\* if atomic.AddInt64(&internal.ref, -1) == 0 { ... }
DropDec(p) ==
    /\ pc[p] = "drop_dec"
    /\ AddRef(internal[p], -1)
    /\ IF DropReleases(ref[internal[p]] - 1)
       THEN /\ Step(p, "drop_nil")
            /\ nzero' = nzero + 1
            /\ zeroed' = zeroed \cup {internal[p]}
            /\ UNCHANGED dropped
       ELSE /\ Finish(p, "void")
            /\ dropped' = dropped \cup {self[p]}
            /\ UNCHANGED <<nzero, zeroed>>
    /\ UNCHANGED <<data, ptr, nh, wptr, nw, ndrops, extVars, taskVars, callVars, combVars>>

\* a.ptr = nil
DropNil(p) ==
    /\ pc[p] = "drop_nil"
    /\ ptr' = [ptr EXCEPT ![self[p]] = NilPtr]
    /\ Finish(p, "void")
    /\ dropped' = dropped \cup {self[p]}
    /\ UNCHANGED <<ref, data, nh, wptr, nw, ndrops, nzero, zeroed, extVars, taskVars, callVars, combVars>>

\* ------------------------------------------------------------------ GetMut
GetMutCall(p, h) ==
    /\ Call(p, h)
    /\ IF ptr[h] = NilPtr
       THEN Finish(p, "nil")
       ELSE Enter(p, h, "getmut_load")
    /\ UNCHANGED <<arcShared, arcHist, extVars, taskVars, callVars, combVars>>

\* a gate that also opens while other holders exist
SoleOwnerOrShared(c) == c >= 1

\* the sole-owner gate of GetMut and CompareAndSwap: LoadInt64(&ref) == 1
SoleOwner(c) == c = 1

\* if atomic.LoadInt64(&internal.ref) == 1 { return &internal.data }; return nil
GetMutLoad(p) ==
    /\ pc[p] = "getmut_load"
    /\ IF SoleOwner(ref[internal[p]])
       THEN Finish(p, "value")
       ELSE Finish(p, "nil")
    /\ UNCHANGED <<arcShared, arcHist, extVars, taskVars, callVars, combVars>>

\* --------------------------------------------------------------- TryUnwrap
TryUnwrapCall(p, h) ==
    /\ Call(p, h)
    /\ IF ptr[h] = NilPtr
       THEN Finish(p, "nil")
       ELSE Enter(p, h, "tu_load")
    /\ UNCHANGED <<arcShared, arcHist, extVars, taskVars, callVars, combVars>>

\* a TryUnwrap that gives its handle up when it fails, too
TryUnwrapLoadInvalidating(p) ==
    /\ pc[p] = "tu_load"
    /\ IF ref[internal[p]] # 1
       THEN /\ Finish(p, "nil")
            /\ ptr' = [ptr EXCEPT ![self[p]] = NilPtr]
       ELSE /\ pc' = [pc EXCEPT ![p] = "tu_cas"]
            /\ current' = [current EXCEPT ![p] = ref[internal[p]]]
            /\ UNCHANGED <<self, internal, arg, ret, late, dead, ptr>>
    /\ UNCHANGED <<ref, data, nh, wptr, nw, arcHist, extVars, taskVars, callVars, combVars>>

\* a TryUnwrap that loads again until it finds the count at 1
TryUnwrapLoadSpinning(p) ==
    /\ pc[p] = "tu_load"
    /\ IF ref[internal[p]] # 1
       THEN UNCHANGED arcLocal
       ELSE /\ pc' = [pc EXCEPT ![p] = "tu_cas"]
            /\ current' = [current EXCEPT ![p] = ref[internal[p]]]
            /\ UNCHANGED <<self, internal, arg, ret, late, dead>>
    /\ UNCHANGED <<arcShared, arcHist, extVars, taskVars, callVars, combVars>>

\* current := atomic.LoadInt64(&internal.ref); if current != 1 { return zero, false }
TryUnwrapLoad(p) ==
    /\ pc[p] = "tu_load"
    /\ IF ref[internal[p]] # 1
       THEN Finish(p, "nil")
       ELSE /\ pc' = [pc EXCEPT ![p] = "tu_cas"]
            /\ current' = [current EXCEPT ![p] = ref[internal[p]]]
            /\ UNCHANGED <<self, internal, arg, ret, late, dead>>
    /\ UNCHANGED <<arcShared, arcHist, extVars, taskVars, callVars, combVars>>

\* atomic.CompareAndSwapInt64(&internal.ref, 1, 0): whether it swaps
CasSwaps(c) == c = 1

\* if atomic.CompareAndSwapInt64(&internal.ref, 1, 0) { ... } else loop
TryUnwrapCAS(p) ==
    /\ pc[p] = "tu_cas"
    /\ IF CasSwaps(ref[internal[p]])
       THEN /\ ref' = [ref EXCEPT ![internal[p]] = 0]
            /\ zeroed' = zeroed \cup {internal[p]}
            /\ Step(p, "tu_take")
       ELSE /\ Step(p, "tu_load")
            /\ UNCHANGED <<ref, zeroed>>
    /\ UNCHANGED <<data, ptr, nh, wptr, nw, ndrops, nzero, dropped, extVars, taskVars, callVars, combVars>>

\* data := internal.data
TryUnwrapTake(p) ==
    /\ pc[p] = "tu_take"
    /\ arg' = [arg EXCEPT ![p] = data[internal[p]]]
    /\ pc' = [pc EXCEPT ![p] = "tu_nil"]
    /\ UNCHANGED <<self, internal, current, ret, late, dead>>
    /\ UNCHANGED <<arcShared, arcHist, extVars, taskVars, callVars, combVars>>

\* a.ptr = nil; return data, true
TryUnwrapNil(p) ==
    /\ pc[p] = "tu_nil"
    /\ ptr' = [ptr EXCEPT ![self[p]] = NilPtr]
    /\ Finish(p, "value")
    /\ UNCHANGED <<ref, data, nh, wptr, nw, arcHist, extVars, taskVars, callVars, combVars>>

\* ------------------------------------------------------- Downgrade, Upgrade
\* goroutines inside a Downgrade call that will still make a Weak
PendingWeaks == Cardinality({q \in Procs : pc[q] = "dg_new"})

\* if a.ptr == nil { return nil }
Downgrade(p, h) ==
    /\ Call(p, h)
    /\ nw + PendingWeaks < MaxWeaks
    /\ IF ptr[h] = NilPtr
       THEN Finish(p, "nil")
       ELSE /\ pc' = [pc EXCEPT ![p] = "dg_new"]
            /\ self' = [self EXCEPT ![p] = h]
            /\ ret' = [ret EXCEPT ![p] = NoRet]
            /\ UNCHANGED <<internal, current, arg, late, dead>>
    /\ UNCHANGED <<arcShared, arcHist, extVars, taskVars, callVars, combVars>>

\* return &Weak[T]{ptr: a.ptr}: a.ptr is read again, and the Weak holds
\* what it is by now
DowngradeNew(p) ==
    /\ pc[p] = "dg_new"
    /\ nw' = nw + 1
    /\ wptr' = [wptr EXCEPT ![nw + 1] = ptr[self[p]]]
    /\ Finish(p, "value")
    /\ UNCHANGED <<ref, data, ptr, nh, arcHist, extVars, taskVars, callVars, combVars>>

\* if w.ptr == nil { return nil }; current := atomic.AddInt64(&internal.ref, 1)
UpgradeAdd(p, w) ==
    /\ pc[p] = "idle"
    /\ w \in 1..nw
    /\ nh + Pending < MaxHandles
    /\ IF wptr[w] = NilPtr
       THEN /\ Finish(p, "nil")
            /\ UNCHANGED ref
       ELSE /\ AddRef(wptr[w], 1)
            /\ pc' = [pc EXCEPT ![p] = "up_check"]
            /\ self' = [self EXCEPT ![p] = w]
            /\ internal' = [internal EXCEPT ![p] = wptr[w]]
            /\ current' = [current EXCEPT ![p] = ref[wptr[w]] + 1]
            /\ ret' = [ret EXCEPT ![p] = NoRet]
            /\ dead' = [dead EXCEPT ![p] = wptr[w] \in zeroed]
            /\ UNCHANGED <<arg, late>>
    /\ UNCHANGED <<data, ptr, nh, wptr, nw, arcHist, extVars, taskVars, callVars, combVars>>

\* a liveness check that asks for one holder more
UpgradeAliveStrict(c) == c > 2

\* the liveness check on the incremented count: current > 1
UpgradeAlive(c) == c > 1

\* the rollback of a failed upgrade: atomic.AddInt64(&internal.ref, -1)
UpgradeRollback(b) == AddRef(b, -1)

\* if current > 1 { return &Arc[T]{ptr: w.ptr} }; rollback; return nil
UpgradeCheck(p) ==
    /\ pc[p] = "up_check"
    /\ IF UpgradeAlive(current[p])
       THEN /\ nh' = nh + 1
            /\ ptr' = [ptr EXCEPT ![nh + 1] = wptr[self[p]]]
            /\ Finish(p, "value")
            /\ UNCHANGED ref
       ELSE /\ UpgradeRollback(internal[p])
            /\ Finish(p, "nil")
            /\ UNCHANGED <<ptr, nh>>
    /\ UNCHANGED <<data, wptr, nw, arcHist, extVars, taskVars, callVars, combVars>>

\* -------------------------------------------------------------------- With
WithCall(p, h) ==
    /\ Call(p, h)
    /\ IF ptr[h] = NilPtr
       THEN Finish(p, "nil")
       ELSE Enter(p, h, "with_add")
    /\ UNCHANGED <<arcShared, arcHist, extVars, taskVars, callVars, combVars>>

\* atomic.AddInt64(&internal.ref, 1)
WithAdd(p) ==
    /\ pc[p] = "with_add"
    /\ AddRef(internal[p], 1)
    /\ Step(p, "with_fn")
    /\ UNCHANGED <<data, ptr, nh, wptr, nw, arcHist, extVars, taskVars, callVars, combVars>>

\* fn(&internal.data): the callback reads the value, or stores v
WithFn(p) ==
    /\ pc[p] = "with_fn"
    /\ \E v \in Val : data' = [data EXCEPT ![internal[p]] = v]
    /\ Step(p, "with_drop")
    /\ UNCHANGED <<ref, ptr, nh, wptr, nw, arcHist, extVars, taskVars, callVars, combVars>>

\* a.Drop(): if a.ptr == nil { return }; internal := a.ptr
WithDrop(p) ==
    /\ pc[p] = "with_drop"
    /\ IF ptr[self[p]] = NilPtr
       THEN Finish(p, "value")
       ELSE /\ pc' = [pc EXCEPT ![p] = "with_dec"]
            /\ internal' = [internal EXCEPT ![p] = ptr[self[p]]]
            /\ UNCHANGED <<self, current, arg, ret, late, dead>>
    /\ UNCHANGED <<arcShared, arcHist, extVars, taskVars, callVars, combVars>>

\* a.Drop(): if atomic.AddInt64(&internal.ref, -1) == 0 { ... }; return true
WithDec(p) ==
    /\ pc[p] = "with_dec"
    /\ AddRef(internal[p], -1)
    /\ IF DropReleases(ref[internal[p]] - 1)
       THEN /\ Step(p, "with_nil")
            /\ zeroed' = zeroed \cup {internal[p]}
       ELSE /\ Finish(p, "value")
            /\ UNCHANGED zeroed
    /\ UNCHANGED <<data, ptr, nh, wptr, nw, ndrops, nzero, dropped, extVars, taskVars, callVars, combVars>>

\* a.Drop(): a.ptr = nil; return true
WithNil(p) ==
    /\ pc[p] = "with_nil"
    /\ ptr' = [ptr EXCEPT ![self[p]] = NilPtr]
    /\ Finish(p, "value")
    /\ UNCHANGED <<ref, data, nh, wptr, nw, arcHist, extVars, taskVars, callVars, combVars>>

\* ---------------------------------------------------------- CompareAndSwap
\* CompareAndSwap(oldValue, newValue): oldValue is never read
CompareAndSwapCall(p, h, oldValue, newValue) ==
    /\ Call(p, h)
    /\ IF ptr[h] = NilPtr
       THEN Finish(p, "nil")
       ELSE /\ pc' = [pc EXCEPT ![p] = "cas_load"]
            /\ self' = [self EXCEPT ![p] = h]
            /\ internal' = [internal EXCEPT ![p] = ptr[h]]
            /\ arg' = [arg EXCEPT ![p] = newValue]
            /\ ret' = [ret EXCEPT ![p] = NoRet]
            /\ late' = [late EXCEPT ![p] = h \in dropped]
            /\ dead' = [dead EXCEPT ![p] = ptr[h] \in zeroed]
            /\ UNCHANGED current
    /\ UNCHANGED <<arcShared, arcHist, extVars, taskVars, callVars, combVars>>

\* if atomic.LoadInt64(&internal.ref) != 1 { return false }
CompareAndSwapLoad(p) ==
    /\ pc[p] = "cas_load"
    /\ IF SoleOwner(ref[internal[p]])
       THEN Step(p, "cas_store")
       ELSE Finish(p, "nil")
    /\ UNCHANGED <<arcShared, arcHist, extVars, taskVars, callVars, combVars>>

\* internal.data = newValue; return true
CompareAndSwapStore(p) ==
    /\ pc[p] = "cas_store"
    /\ data' = [data EXCEPT ![internal[p]] = arg[p]]
    /\ Finish(p, "value")
    /\ UNCHANGED <<ref, ptr, nh, wptr, nw, arcHist, extVars, taskVars, callVars, combVars>>

\* ------------------------------------------------------- MapArc, MergeArcs
\* the transforms MapArc is called with
MapFns == [Val -> Val]

\* if a.ptr == nil { return nil }; internal := a.ptr
MapArcCall(p, h) ==
    /\ Call(p, h)
    /\ nh + Pending < MaxHandles
    /\ nb + PendingBlocks < MaxBlocks
    /\ ptr[h] \notin merged
    /\ IF ptr[h] = NilPtr
       THEN Finish(p, "nil")
       ELSE Enter(p, h, "map_new")
    /\ UNCHANGED <<arcShared, arcHist, extVars, taskVars, callVars, combVars>>

\* a MapArc that transforms the value where it is and returns another Arc
\* on the source's block
MapArcNewInPlace(p, fn) ==
    /\ pc[p] = "map_new"
    /\ data' = [data EXCEPT ![internal[p]] = fn[data[internal[p]]]]
    /\ nh' = nh + 1
    /\ ptr' = [ptr EXCEPT ![nh + 1] = internal[p]]
    /\ Finish(p, "value")
    /\ UNCHANGED <<ref, nb>>
    /\ UNCHANGED <<wptr, nw, arcHist, merged, rarc, nr, extLocal, taskVars, callVars, combVars>>

\* return NewArc(fn(internal.data))
MapArcNew(p, fn) ==
    /\ pc[p] = "map_new"
    /\ NewArc(fn[data[internal[p]]])
    /\ Finish(p, "value")
    /\ UNCHANGED <<wptr, nw, arcHist, merged, rarc, nr, extLocal, taskVars, callVars, combVars>>

\* the argument lists of MergeArcs: pointers to Arcs of one value type, 0
\* standing for a nil pointer
ArgSeqs ==
    UNION {[1..k -> {0} \cup {h \in 1..nh : ptr[h] \notin merged}] : k \in 0..MaxArgs}

\* values := make([]T, len(arcs))
MergeArcsCall(p, as) ==
    /\ pc[p] = "idle"
    /\ as \in ArgSeqs
    /\ nh + Pending < MaxHandles
    /\ nb + PendingBlocks < MaxBlocks
    /\ arcs' = [arcs EXCEPT ![p] = as]
    /\ values' = [values EXCEPT ![p] = [i \in 1..Len(as) |-> 0]]
    /\ idx' = [idx EXCEPT ![p] = 0]
    /\ pc' = [pc EXCEPT ![p] = "merge_deref"]
    /\ ret' = [ret EXCEPT ![p] = NoRet]
    /\ UNCHANGED <<self, internal, current, arg, late, dead>>
    /\ UNCHANGED <<arcShared, arcHist, extShared, other, temp, rself,
                   taskVars, callVars, combVars>>

\* MergeArcs or ArcSlice stops and forgets its locals
MergeArcsExit(p, r) ==
    /\ Finish(p, r)
    /\ arcs' = [arcs EXCEPT ![p] = <<>>]
    /\ values' = [values EXCEPT ![p] = <<>>]
    /\ idx' = [idx EXCEPT ![p] = 0]

\* for i, arc := range arcs { if arc != nil { ... arc.Deref() ... } }: a nil
\* arc is skipped; Deref returns nil when arc.ptr is nil and the * applied
\* to it panics; after the last arc, return NewArc(values)
MergeArcsDeref(p) ==
    /\ pc[p] = "merge_deref"
    /\ IF idx[p] = Len(arcs[p])
       THEN /\ NewArc(values[p])
            /\ merged' = merged \cup {nb + 1}
            /\ MergeArcsExit(p, "value")
       ELSE /\ UNCHANGED <<arcShared, nb, merged>>
            /\ IF arcs[p][idx[p] + 1] = 0
               THEN /\ idx' = [idx EXCEPT ![p] = idx[p] + 1]
                    /\ UNCHANGED <<arcLocal, arcs, values>>
               ELSE IF ptr[arcs[p][idx[p] + 1]] = NilPtr
               THEN MergeArcsExit(p, "panic")
               ELSE /\ pc' = [pc EXCEPT ![p] = "merge_read"]
                    /\ self' = [self EXCEPT ![p] = arcs[p][idx[p] + 1]]
                    /\ internal' = [internal EXCEPT ![p] = ptr[arcs[p][idx[p] + 1]]]
                    /\ late' = [late EXCEPT ![p] = arcs[p][idx[p] + 1] \in dropped]
                    /\ dead' = [dead EXCEPT ![p] = ptr[arcs[p][idx[p] + 1]] \in zeroed]
                    /\ UNCHANGED <<current, arg, ret, arcs, values, idx>>
    /\ UNCHANGED <<wptr, nw, arcHist, rarc, nr, other, temp, rself,
                   taskVars, callVars, combVars>>

\* values[i] = *arc.Deref()
MergeArcsRead(p) ==
    /\ pc[p] = "merge_read"
    /\ values' = [values EXCEPT ![p][idx[p] + 1] = data[internal[p]]]
    /\ idx' = [idx EXCEPT ![p] = idx[p] + 1]
    /\ pc' = [pc EXCEPT ![p] = "merge_deref"]
    /\ UNCHANGED <<self, internal, current, arg, ret, late, dead, arcs>>
    /\ UNCHANGED <<arcShared, arcHist, extShared, other, temp, rself,
                   taskVars, callVars, combVars>>

\* -------------------------------------------------------- NewArc, ArcSlice
\* a call of NewArc(value) by a goroutine
NewArcCall(p, value) ==
    /\ pc[p] = "idle"
    /\ nh + Pending < MaxHandles
    /\ nb + PendingBlocks < MaxBlocks
    /\ NewArc(value)
    /\ Finish(p, "value")
    /\ UNCHANGED <<wptr, nw, arcHist, merged, rarc, nr, extLocal, taskVars, callVars, combVars>>

\* the argument lists of ArcSlice
SliceArgs == UNION {[1..k -> Val] : k \in 0..MaxArgs}

\* arcs := make([]*Arc[T], len(values))
ArcSliceCall(p, vs) ==
    /\ pc[p] = "idle"
    /\ vs \in SliceArgs
    /\ nh + Pending + Len(vs) <= MaxHandles
    /\ nb + PendingBlocks + Len(vs) <= MaxBlocks
    /\ arcs' = [arcs EXCEPT ![p] = [i \in 1..Len(vs) |-> 0]]
    /\ values' = [values EXCEPT ![p] = vs]
    /\ idx' = [idx EXCEPT ![p] = 0]
    /\ pc' = [pc EXCEPT ![p] = "slice_new"]
    /\ ret' = [ret EXCEPT ![p] = NoRet]
    /\ UNCHANGED <<self, internal, current, arg, late, dead>>
    /\ UNCHANGED <<arcShared, arcHist, extShared, other, temp, rself,
                   taskVars, callVars, combVars>>

\* for i, v := range values { arcs[i] = NewArc(v) }; return arcs
ArcSliceNew(p) ==
    /\ pc[p] = "slice_new"
    /\ IF idx[p] = Len(values[p])
       THEN /\ MergeArcsExit(p, "value")
            /\ UNCHANGED <<ref, data, ptr, nh, nb>>
       ELSE /\ NewArc(values[p][idx[p] + 1])
            /\ arcs' = [arcs EXCEPT ![p][idx[p] + 1] = nh + 1]
            /\ idx' = [idx EXCEPT ![p] = idx[p] + 1]
            /\ UNCHANGED <<arcLocal, values>>
    /\ UNCHANGED <<wptr, nw, arcHist, merged, rarc, nr, other, temp, rself,
                   taskVars, callVars, combVars>>

\* ---------------------------------------------------------- AsRef, Release
\* goroutines inside an AsRef call that will still make a Ref
PendingRefs ==
    Cardinality({q \in Procs : pc[q] \in {"asref_clone", "asref_add", "asref_ret"}})

\* if a.ptr == nil { return nil }
AsRefCall(p, h) ==
    /\ Call(p, h)
    /\ nh + Pending < MaxHandles
    /\ nr + PendingRefs < MaxRefs
    /\ ptr[h] \notin merged
    /\ IF ptr[h] = NilPtr
       THEN Finish(p, "nil")
       ELSE Enter(p, h, "asref_clone")
    /\ UNCHANGED <<arcShared, arcHist, extVars, taskVars, callVars, combVars>>

\* a.Clone(): if a.ptr == nil { return nil }, and then the Ref holds nil
AsRefClone(p) ==
    /\ pc[p] = "asref_clone"
    /\ IF ptr[self[p]] = NilPtr
       THEN /\ nr' = nr + 1
            /\ rarc' = [rarc EXCEPT ![nr + 1] = 0]
            /\ Finish(p, "value")
       ELSE /\ pc' = [pc EXCEPT ![p] = "asref_add"]
            /\ internal' = [internal EXCEPT ![p] = ptr[self[p]]]
            /\ UNCHANGED <<self, current, arg, ret, late, dead, nr, rarc>>
    /\ UNCHANGED <<arcShared, arcHist, nb, merged, extLocal, taskVars, callVars, combVars>>

\* a.Clone(): atomic.AddInt64(&internal.ref, 1)
AsRefAdd(p) ==
    /\ pc[p] = "asref_add"
    /\ AddRef(internal[p], 1)
    /\ Step(p, "asref_ret")
    /\ UNCHANGED <<data, ptr, nh, wptr, nw, arcHist, extVars, taskVars, callVars, combVars>>

\* return &Ref[T]{arc: &Arc[T]{ptr: a.ptr}}
AsRefRet(p) ==
    /\ pc[p] = "asref_ret"
    /\ nh' = nh + 1
    /\ ptr' = [ptr EXCEPT ![nh + 1] = ptr[self[p]]]
    /\ nr' = nr + 1
    /\ rarc' = [rarc EXCEPT ![nr + 1] = nh + 1]
    /\ Finish(p, "value")
    /\ UNCHANGED <<ref, data, wptr, nw, arcHist, nb, merged, extLocal,
                   taskVars, callVars, combVars>>

\* if r.arc != nil { r.arc.Drop() ... }
ReleaseCall(p, r) ==
    /\ pc[p] = "idle"
    /\ r \in 1..nr
    /\ IF rarc[r] = 0
       THEN /\ Finish(p, "void")
            /\ UNCHANGED rself
       ELSE /\ pc' = [pc EXCEPT ![p] = "rel_drop"]
            /\ rself' = [rself EXCEPT ![p] = r]
            /\ self' = [self EXCEPT ![p] = rarc[r]]
            /\ ret' = [ret EXCEPT ![p] = NoRet]
            /\ UNCHANGED <<internal, current, arg, late, dead>>
    /\ UNCHANGED <<arcShared, arcHist, extShared, arcs, values, idx, other, temp,
                   taskVars, callVars, combVars>>

\* r.arc.Drop(): if a.ptr == nil { return }; internal := a.ptr
ReleaseDrop(p) ==
    /\ pc[p] = "rel_drop"
    /\ IF ptr[self[p]] = NilPtr
       THEN /\ pc' = [pc EXCEPT ![p] = "rel_clear"]
            /\ UNCHANGED internal
       ELSE /\ pc' = [pc EXCEPT ![p] = "rel_dec"]
            /\ internal' = [internal EXCEPT ![p] = ptr[self[p]]]
    /\ UNCHANGED <<self, current, arg, ret, late, dead>>
    /\ UNCHANGED <<arcShared, arcHist, extVars, taskVars, callVars, combVars>>

\* r.arc.Drop(): if atomic.AddInt64(&internal.ref, -1) == 0 { ... }
ReleaseDec(p) ==
    /\ pc[p] = "rel_dec"
    /\ AddRef(internal[p], -1)
    /\ IF DropReleases(ref[internal[p]] - 1)
       THEN /\ Step(p, "rel_nil")
            /\ zeroed' = zeroed \cup {internal[p]}
            /\ UNCHANGED dropped
       ELSE /\ Step(p, "rel_clear")
            /\ dropped' = dropped \cup {self[p]}
            /\ UNCHANGED zeroed
    /\ UNCHANGED <<data, ptr, nh, wptr, nw, ndrops, nzero, extVars,
                   taskVars, callVars, combVars>>

\* r.arc.Drop(): a.ptr = nil
ReleaseNil(p) ==
    /\ pc[p] = "rel_nil"
    /\ ptr' = [ptr EXCEPT ![self[p]] = NilPtr]
    /\ Step(p, "rel_clear")
    /\ dropped' = dropped \cup {self[p]}
    /\ UNCHANGED <<ref, data, nh, wptr, nw, ndrops, nzero, zeroed, extVars,
                   taskVars, callVars, combVars>>

\* a Release that keeps its Arc
ReleaseClearKeeping(p) ==
    /\ pc[p] = "rel_clear"
    /\ Finish(p, "void")
    /\ rself' = [rself EXCEPT ![p] = 0]
    /\ UNCHANGED <<arcShared, arcHist, extShared, arcs, values, idx, other, temp,
                   taskVars, callVars, combVars>>

\* r.arc = nil
ReleaseClear(p) ==
    /\ pc[p] = "rel_clear"
    /\ rarc' = [rarc EXCEPT ![rself[p]] = 0]
    /\ Finish(p, "void")
    /\ rself' = [rself EXCEPT ![p] = 0]
    /\ UNCHANGED <<arcShared, arcHist, nb, merged, nr, arcs, values, idx, other, temp,
                   taskVars, callVars, combVars>>

\* -------------------------------------------------------------- Reset, Swap
\* Reset(value): a.Drop() comes first
ResetCall(p, h, value) ==
    /\ Call(p, h)
    /\ nb + PendingBlocks < MaxBlocks
    /\ ptr[h] \notin merged
    /\ pc' = [pc EXCEPT ![p] = "reset_drop"]
    /\ self' = [self EXCEPT ![p] = h]
    /\ arg' = [arg EXCEPT ![p] = value]
    /\ ret' = [ret EXCEPT ![p] = NoRet]
    /\ late' = [late EXCEPT ![p] = h \in dropped]
    /\ dead' = [dead EXCEPT ![p] = ptr[h] \in zeroed]
    /\ UNCHANGED <<internal, current>>
    /\ UNCHANGED <<arcShared, arcHist, extVars, taskVars, callVars, combVars>>

\* a.Drop(): if a.ptr == nil { return }; internal := a.ptr
ResetDrop(p) ==
    /\ pc[p] = "reset_drop"
    /\ IF ptr[self[p]] = NilPtr
       THEN /\ pc' = [pc EXCEPT ![p] = "reset_new"]
            /\ UNCHANGED internal
       ELSE /\ pc' = [pc EXCEPT ![p] = "reset_dec"]
            /\ internal' = [internal EXCEPT ![p] = ptr[self[p]]]
    /\ UNCHANGED <<self, current, arg, ret, late, dead>>
    /\ UNCHANGED <<arcShared, arcHist, extVars, taskVars, callVars, combVars>>

\* a.Drop(): if atomic.AddInt64(&internal.ref, -1) == 0 { ... }
ResetDec(p) ==
    /\ pc[p] = "reset_dec"
    /\ AddRef(internal[p], -1)
    /\ IF DropReleases(ref[internal[p]] - 1)
       THEN /\ Step(p, "reset_nil")
            /\ zeroed' = zeroed \cup {internal[p]}
       ELSE /\ Step(p, "reset_new")
            /\ UNCHANGED zeroed
    /\ UNCHANGED <<data, ptr, nh, wptr, nw, ndrops, nzero, dropped, extVars,
                   taskVars, callVars, combVars>>

\* a.Drop(): a.ptr = nil
ResetNil(p) ==
    /\ pc[p] = "reset_nil"
    /\ ptr' = [ptr EXCEPT ![self[p]] = NilPtr]
    /\ Step(p, "reset_new")
    /\ UNCHANGED <<ref, data, nh, wptr, nw, arcHist, extVars, taskVars, callVars, combVars>>

\* internal := &arcInternal[T]{data: value, ref: 1}; a.ptr = internal: the
\* Arc owns a unit of the new block
ResetNew(p) ==
    /\ pc[p] = "reset_new"
    /\ nb' = nb + 1
    /\ ref' = [ref EXCEPT ![nb + 1] = 1]
    /\ data' = [data EXCEPT ![nb + 1] = arg[p]]
    /\ ptr' = [ptr EXCEPT ![self[p]] = nb + 1]
    /\ dropped' = dropped \ {self[p]}
    /\ Finish(p, "void")
    /\ UNCHANGED <<nh, wptr, nw, ndrops, nzero, zeroed, merged, rarc, nr, extLocal,
                   taskVars, callVars, combVars>>

\* if a.ptr == nil || other.ptr == nil { return }; temp := a.ptr
SwapCall(p, h, o) ==
    /\ Call(p, h)
    /\ o \in 1..nh
    /\ (ptr[h] \in merged) = (ptr[o] \in merged)
    /\ IF ptr[h] = NilPtr \/ ptr[o] = NilPtr
       THEN /\ Finish(p, "void")
            /\ UNCHANGED <<other, temp>>
       ELSE /\ pc' = [pc EXCEPT ![p] = "swap_a"]
            /\ self' = [self EXCEPT ![p] = h]
            /\ other' = [other EXCEPT ![p] = o]
            /\ temp' = [temp EXCEPT ![p] = ptr[h]]
            /\ ret' = [ret EXCEPT ![p] = NoRet]
            /\ late' = [late EXCEPT ![p] = h \in dropped \/ o \in dropped]
            /\ dead' = [dead EXCEPT ![p] = ptr[h] \in zeroed \/ ptr[o] \in zeroed]
            /\ UNCHANGED <<internal, current, arg>>
    /\ UNCHANGED <<arcShared, arcHist, extShared, arcs, values, idx, rself,
                   taskVars, callVars, combVars>>

\* a.ptr = other.ptr
SwapA(p) ==
    /\ pc[p] = "swap_a"
    /\ ptr' = [ptr EXCEPT ![self[p]] = ptr[other[p]]]
    /\ Step(p, "swap_b")
    /\ UNCHANGED <<ref, data, nh, wptr, nw, arcHist, extVars, taskVars, callVars, combVars>>

\* other.ptr = temp
SwapB(p) ==
    /\ pc[p] = "swap_b"
    /\ ptr' = [ptr EXCEPT ![other[p]] = temp[p]]
    /\ Finish(p, "void")
    /\ other' = [other EXCEPT ![p] = 0]
    /\ temp' = [temp EXCEPT ![p] = NilPtr]
    /\ UNCHANGED <<ref, data, nh, wptr, nw, arcHist, extShared, arcs, values, idx,
                   rself, taskVars, callVars, combVars>>

\* ------------------------------------------------------------ specifications
\* ------------------------------------------------------------------ tasks
Tasks      == 1..MaxTasks
Inputs     == 1..MaxInputs              \* the inputs of a combinator
Derived    == MaxInputs + 1             \* the task a combinator returns
TaskIds    == 1..(MaxInputs + MaxTasks)
Arities    == {1, 2, 3}
FnVals     == {1, 2}            \* values a computation returns
ZeroResult == <<0, 0, 0>>       \* the zero values of the result slots
NoErr      == "nil"
Canceled   == "canceled"        \* context.Canceled, what ctx.Err() returns
Failed     == "failed"          \* an error returned by the computation

\* no task is constructed yet, the scope is not cancelled
TaskInit ==
    /\ parentDone = FALSE
    /\ cancelPc = "idle"
    /\ kind = [t \in TaskIds |-> "none"]
    /\ arity = [t \in TaskIds |-> 1]
    /\ ctxDone = [t \in TaskIds |-> FALSE]
    /\ result = [t \in TaskIds |-> ZeroResult]
    /\ err = [t \in TaskIds |-> NoErr]
    /\ done = [t \in TaskIds |-> 0]
    /\ epc = [t \in TaskIds |-> "none"]
    /\ branch = [t \in TaskIds |-> "none"]
    /\ out = [t \in TaskIds |-> ZeroResult]
    /\ outErr = [t \in TaskIds |-> NoErr]
    /\ stored = [t \in TaskIds |-> 0]

\* ------------------------------------------------- callers of a task
Callers   == 1..MaxCallers
Selecting == {"GetWithTimeout", "WaitFor"}    \* the methods with a select

\* what a call has returned so far: the boolean, the slots, the error
NoResult == [ok |-> FALSE, res |-> ZeroResult, err |-> NoErr]

CallInit ==
    /\ cop = [c \in Callers |-> "none"]
    /\ ctask = [c \in Callers |-> 1]
    /\ cpc = [c \in Callers |-> "idle"]
    /\ cn = [c \in Callers |-> 0]
    /\ cret = [c \in Callers |-> NoResult]
    /\ sawDone = {}
    /\ cdone = [c \in Callers |-> FALSE]
    /\ cancelFirst = [t \in TaskIds |-> FALSE]

\* close(f.done) wakes every caller parked on f.done: each receives from it
WakeDone(t) ==
    [c \in Callers |->
        IF cpc[c] = "parked" /\ ctask[c] = t THEN "done" ELSE cpc[c]]

\* the cancellation of the contexts of the tasks in ts wakes the callers
\* parked in a select that has the case <-f.ctx.Done()
WakeCtx(ts) ==
    [c \in Callers |->
        IF cpc[c] = "parked" /\ ctask[c] \in ts /\ cop[c] \in Selecting
        THEN "ctx" ELSE cpc[c]]

\* childCtx, cancel := context.WithCancel(ctx); f := &futureImpl{...,
\* done: make(chan struct{})}; go f.execute(fn).  A child of a cancelled
\* scope is cancelled from the start.
Construct(t, n, k) ==
    /\ kind[t] = "none"
    /\ \A u \in 1..(t - 1) : kind[u] # "none"
    /\ kind' = [kind EXCEPT ![t] = k]
    /\ arity' = [arity EXCEPT ![t] = n]
    /\ ctxDone' = [ctxDone EXCEPT ![t] = parentDone]
    /\ epc' = [epc EXCEPT ![t] = "select"]
    /\ UNCHANGED <<parentDone, cancelPc, result, err, done, branch, out, outErr, stored>>
    /\ UNCHANGED <<arcVars, callVars, combVars>>

\* NewWithContext, New2WithContext, New3WithContext
NewWithContext(t, n) == n \in {1, 2, 3} /\ Construct(t, n, "execute")

\* NewWithContextE, New2WithContextE
NewWithContextE(t, n) == n \in {1, 2} /\ Construct(t, n, "executeWithError")

\* a Cancel that also records the cancellation in the error field
CancelRecording(t) ==
    /\ kind[t] # "none"
    /\ ctxDone' = [ctxDone EXCEPT ![t] = TRUE]
    /\ err' = [err EXCEPT ![t] = Canceled]
    /\ UNCHANGED <<parentDone, cancelPc, kind, arity, result, done, epc, branch, out,
                   outErr, stored>>
    /\ cpc' = WakeCtx({t})
    /\ UNCHANGED <<arcVars, combVars, cop, ctask, cn, cret, sawDone, cdone, cancelFirst>>

\* a Cancel that cancels every task constructed with the same scope
CancelSiblings(t) ==
    /\ kind[t] # "none"
    /\ ctxDone' = [u \in TaskIds |->
                      ctxDone[u] \/ u = t \/ (kind[u] # "none" /\ comb[u] = "fn")]
    /\ UNCHANGED <<parentDone, cancelPc, kind, arity, result, err, done, epc, branch,
                   out, outErr, stored>>
    /\ cpc' = WakeCtx({u \in TaskIds : kind[u] # "none"})
    /\ UNCHANGED <<arcVars, combVars, cop, ctask, cn, cret, sawDone, cdone, cancelFirst>>

\* Cancel: f.cancelFunc()
Cancel(t) ==
    /\ kind[t] # "none"
    /\ ctxDone' = [ctxDone EXCEPT ![t] = TRUE]
    /\ UNCHANGED <<parentDone, cancelPc, kind, arity, result, err, done, epc, branch,
                   out, outErr, stored>>
    /\ cpc' = WakeCtx({t})
    /\ UNCHANGED <<arcVars, combVars, cop, ctask, cn, cret, sawDone, cdone, cancelFirst>>

\* the tasks constructed with the scope whose context is not cancelled yet
\* (a combinator constructs its task with context.Background())
ScopeChildren ==
    {t \in TaskIds : kind[t] # "none" /\ comb[t] = "fn" /\ ~ctxDone[t]}

\* the cancel function of the scope is called: it closes the scope's Done
\* channel first
CancelParent ==
    /\ cancelPc = "idle"
    /\ parentDone' = TRUE
    /\ cancelPc' = "children"
    /\ UNCHANGED <<kind, arity, ctxDone, result, err, done, epc, branch, out,
                   outErr, stored>>
    /\ UNCHANGED <<arcVars, callVars, combVars>>

\* the cancel function of the scope cancels the contexts derived from it,
\* one after another, in no fixed order
CancelChild(t) ==
    /\ cancelPc = "children"
    /\ t \in ScopeChildren
    /\ ctxDone' = [ctxDone EXCEPT ![t] = TRUE]
    /\ UNCHANGED <<parentDone, cancelPc, kind, arity, result, err, done, epc,
                   branch, out, outErr, stored>>
    /\ cpc' = WakeCtx({t})
    /\ UNCHANGED <<arcVars, combVars, cop, ctask, cn, cret, sawDone, cdone, cancelFirst>>

\* the cancel function of the scope returns: no derived context is left
CancelParentReturn ==
    /\ cancelPc = "children"
    /\ ScopeChildren = {}
    /\ cancelPc' = "returned"
    /\ UNCHANGED <<parentDone, kind, arity, ctxDone, result, err, done, epc,
                   branch, out, outErr, stored>>
    /\ UNCHANGED <<arcVars, callVars, combVars>>

\* the steps of the scope's cancel function
CancelParentSteps ==
    CancelParent \/ (\E t \in TaskIds : CancelChild(t)) \/ CancelParentReturn

\* an execute that runs fn without looking at ctx
ExecSelectIgnoringCtx(t) ==
    /\ epc[t] = "select"
    /\ branch' = [branch EXCEPT ![t] = "default"]
    /\ epc' = [epc EXCEPT ![t] = "fn"]
    /\ UNCHANGED <<parentDone, cancelPc, kind, arity, ctxDone, result, err, done, out,
                   outErr, stored>>
    /\ UNCHANGED <<arcVars, callVars, combVars>>

\* select { case <-f.ctx.Done(): ... default: ... }: the default case is
\* taken only when ctx is not cancelled
ExecSelect(t) ==
    /\ epc[t] = "select"
    /\ IF ctxDone[t]
       THEN /\ branch' = [branch EXCEPT ![t] = "cancel"]
            /\ epc' = [epc EXCEPT ![t] = "store_cancel"]
       ELSE /\ branch' = [branch EXCEPT ![t] = "default"]
            /\ epc' = [epc EXCEPT ![t] = "fn"]
    /\ UNCHANGED <<parentDone, cancelPc, kind, arity, ctxDone, result, err, done, out,
                   outErr, stored>>
    /\ UNCHANGED <<arcVars, callVars, combVars>>

\* f.err = f.ctx.Err()
ExecCancelled(t) ==
    /\ epc[t] = "store_cancel"
    /\ err' = [err EXCEPT ![t] = Canceled]
    /\ epc' = [epc EXCEPT ![t] = "close"]
    /\ UNCHANGED <<parentDone, cancelPc, kind, arity, ctxDone, result, done, branch,
                   out, outErr, stored>>
    /\ UNCHANGED <<arcVars, callVars, combVars>>

\* the slots a computation of n values fills, the others staying zero
FnResult(n, v1, v2, v3) ==
    <<v1, IF n >= 2 THEN v2 ELSE 0, IF n >= 3 THEN v3 ELSE 0>>

\* an execute that raises the completion signal when fn returns, before
\* the result is stored
ExecFnSignalling(t, v1, v2, v3, e) ==
    /\ epc[t] = "fn"
    /\ comb[t] = "fn"
    /\ kind[t] = "execute" => e = NoErr
    /\ out' = [out EXCEPT ![t] = FnResult(arity[t], v1, v2, v3)]
    /\ outErr' = [outErr EXCEPT ![t] = e]
    /\ epc' = [epc EXCEPT ![t] = "store"]
    /\ done' = [done EXCEPT ![t] = done[t] + 1]
    /\ cpc' = WakeDone(t)
    /\ UNCHANGED <<parentDone, cancelPc, kind, arity, ctxDone, result, err, branch,
                   stored>>
    /\ UNCHANGED <<arcVars, combVars, cop, ctask, cn, cret, sawDone, cdone, cancelFirst>>

\* fn() returns: its values, and for executeWithError its error
ExecFn(t, v1, v2, v3, e) ==
    /\ epc[t] = "fn"
    /\ comb[t] = "fn"
    /\ kind[t] = "execute" => e = NoErr
    /\ out' = [out EXCEPT ![t] = FnResult(arity[t], v1, v2, v3)]
    /\ outErr' = [outErr EXCEPT ![t] = e]
    /\ epc' = [epc EXCEPT ![t] = "store"]
    /\ UNCHANGED <<parentDone, cancelPc, kind, arity, ctxDone, result, err, done,
                   branch, stored>>
    /\ UNCHANGED <<arcVars, callVars, combVars>>

\* an execute that looks at the context again before it stores: a value
\* computed under a cancelled context is dropped
ExecStorePreempted(t) ==
    /\ epc[t] = "store"
    /\ stored[t] < arity[t]
    /\ result' = [result EXCEPT ![t][stored[t] + 1] =
                    IF ctxDone[t] THEN 0 ELSE out[t][stored[t] + 1]]
    /\ stored' = [stored EXCEPT ![t] = stored[t] + 1]
    /\ epc' = [epc EXCEPT ![t] =
                 IF stored[t] + 1 < arity[t] THEN "store"
                 ELSE IF kind[t] = "executeWithError" THEN "store_err"
                 ELSE "close"]
    /\ UNCHANGED <<parentDone, cancelPc, kind, arity, ctxDone, err, done, branch, out,
                   outErr>>
    /\ UNCHANGED <<arcVars, callVars, combVars>>

\* f.result1, f.result2, f.result3 = ...: the slots are assigned one
\* after the other
ExecStore(t) ==
    /\ epc[t] = "store"
    /\ stored[t] < arity[t]
    /\ result' = [result EXCEPT ![t][stored[t] + 1] = out[t][stored[t] + 1]]
    /\ stored' = [stored EXCEPT ![t] = stored[t] + 1]
    /\ epc' = [epc EXCEPT ![t] =
                 IF stored[t] + 1 < arity[t] THEN "store"
                 ELSE IF kind[t] = "executeWithError" THEN "store_err"
                 ELSE "close"]
    /\ UNCHANGED <<parentDone, cancelPc, kind, arity, ctxDone, err, done, branch, out,
                   outErr>>
    /\ UNCHANGED <<arcVars, callVars, combVars>>

\* f.err = err
ExecStoreErr(t) ==
    /\ epc[t] = "store_err"
    /\ err' = [err EXCEPT ![t] = outErr[t]]
    /\ epc' = [epc EXCEPT ![t] = "close"]
    /\ UNCHANGED <<parentDone, cancelPc, kind, arity, ctxDone, result, done, branch,
                   out, outErr, stored>>
    /\ UNCHANGED <<arcVars, callVars, combVars>>

\* defer close(f.done)
ExecClose(t) ==
    /\ epc[t] = "close"
    /\ done' = [done EXCEPT ![t] = done[t] + 1]
    /\ epc' = [epc EXCEPT ![t] = "exit"]
    /\ UNCHANGED <<parentDone, cancelPc, kind, arity, ctxDone, result, err, branch,
                   out, outErr, stored>>
    /\ cpc' = WakeDone(t)
    /\ UNCHANGED <<arcVars, cop, ctask, cn, cret, sawDone, cdone>>
    /\ cancelFirst' = [cancelFirst EXCEPT ![t] = ctxDone[t]]
    /\ order' = Append(order, t)
    /\ UNCHANGED <<comb, ins, acc, ci, hst, hval, buf>>

\* the state of a task: Pending until the completion signal is raised, then
\* Cancelled if its select took the ctx.Done case, Completed otherwise
TaskState(t) ==
    IF done[t] = 0 THEN "Pending"
    ELSE IF branch[t] = "cancel" THEN "Cancelled"
    ELSE "Completed"

\* what the result slots and the error field hold in the end
FinalResult(t) == IF branch[t] = "cancel" THEN ZeroResult ELSE out[t]

FinalErr(t) ==
    IF branch[t] = "cancel" THEN Canceled
    ELSE IF kind[t] = "executeWithError" THEN outErr[t]
    ELSE NoErr

\* --------------------------------------------------- retrieval methods
\* the cases of a select on f.done and f.ctx.Done() that can proceed
Ready(t) ==
    (IF done[t] > 0 THEN {"done"} ELSE {}) \cup
    (IF ctxDone[t] THEN {"ctx"} ELSE {})

\* a call begins: the receive <-f.done proceeds or the caller parks
Receive(c, t, op) ==
    /\ cpc[c] = "idle"
    /\ kind[t] # "none"
    /\ cop' = [cop EXCEPT ![c] = op]
    /\ ctask' = [ctask EXCEPT ![c] = t]
    /\ cpc' = [cpc EXCEPT ![c] = IF done[t] > 0 THEN "done" ELSE "parked"]
    /\ cn' = [cn EXCEPT ![c] = 0]
    /\ cret' = [cret EXCEPT ![c] = NoResult]
    /\ cdone' = [cdone EXCEPT ![c] = done[t] > 0]
    /\ UNCHANGED <<arcVars, taskVars, combVars, sawDone, cancelFirst>>

\* a call begins with a select on f.done, time.After(timeout) and
\* f.ctx.Done(): one of the cases that can proceed is chosen, the timer's
\* among them when the timeout has elapsed by then (it is zero, negative or
\* short); with no case that can proceed the caller parks
Select(c, t, op) ==
    /\ cpc[c] = "idle"
    /\ kind[t] # "none"
    /\ cop' = [cop EXCEPT ![c] = op]
    /\ ctask' = [ctask EXCEPT ![c] = t]
    /\ \/ Ready(t) = {} /\ cpc' = [cpc EXCEPT ![c] = "parked"]
       \/ \E r \in Ready(t) \cup {"timer"} : cpc' = [cpc EXCEPT ![c] = r]
    /\ cn' = [cn EXCEPT ![c] = 0]
    /\ cret' = [cret EXCEPT ![c] = NoResult]
    /\ cdone' = [cdone EXCEPT ![c] = done[t] > 0]
    /\ UNCHANGED <<arcVars, taskVars, combVars, sawDone, cancelFirst>>

\* Get: <-f.done
GetCall(c, t) == Receive(c, t, "Get")

\* Error: <-f.done
ErrorCall(c, t) == Receive(c, t, "Error")

\* Wait(): <-f.done
WaitCall(c, t) == Receive(c, t, "Wait")

\* GetWithTimeout(timeout): select
GetWithTimeoutCall(c, t) == Select(c, t, "GetWithTimeout")

\* Wait(timeout): select
WaitForCall(c, t) == Select(c, t, "WaitFor")

\* case <-time.After(timeout), for a caller parked in a select
TimerFires(c) ==
    /\ cpc[c] = "parked"
    /\ cop[c] \in Selecting
    /\ cpc' = [cpc EXCEPT ![c] = "timer"]
    /\ UNCHANGED <<arcVars, taskVars, combVars, cop, ctask, cn, cret, sawDone, cdone, cancelFirst>>

\* return f.result / return f.result1, f.result2, f.result3: the slots are
\* read one after the other
ReadSlot(c) ==
    /\ cpc[c] = "done"
    /\ cop[c] \in {"Get", "GetWithTimeout"}
    /\ cn[c] < arity[ctask[c]]
    /\ cn' = [cn EXCEPT ![c] = cn[c] + 1]
    /\ cret' = [cret EXCEPT ![c].res[cn[c] + 1] = result[ctask[c]][cn[c] + 1]]
    /\ UNCHANGED <<arcVars, taskVars, combVars, cop, ctask, cpc, sawDone, cdone, cancelFirst>>

\* the call returns: after <-f.done the slots read (Get, GetWithTimeout,
\* with true), f.err (Error) or true (Wait); after the timer or
\* <-f.ctx.Done() the zero values and false
Return(c) ==
    /\ \/ /\ cpc[c] = "done"
          /\ cop[c] \in {"Get", "GetWithTimeout"} => cn[c] = arity[ctask[c]]
          /\ cret' = [cret EXCEPT ![c].ok = TRUE,
                                  ![c].err = IF cop[c] = "Error"
                                             THEN err[ctask[c]] ELSE NoErr]
       \/ /\ cpc[c] \in {"ctx", "timer"}
          /\ cret' = [cret EXCEPT ![c] = NoResult]
    /\ cpc' = [cpc EXCEPT ![c] = "idle"]
    /\ UNCHANGED <<arcVars, taskVars, combVars, cop, ctask, cn, sawDone, cdone, cancelFirst>>

\* what IsDone returns: select { case <-f.done: true; default: false }
IsDoneValue(t) == done[t] > 0

\* IsDone
IsDone(c, t) ==
    /\ cpc[c] = "idle"
    /\ kind[t] # "none"
    /\ cop' = [cop EXCEPT ![c] = "IsDone"]
    /\ ctask' = [ctask EXCEPT ![c] = t]
    /\ cn' = [cn EXCEPT ![c] = 0]
    /\ cret' = [cret EXCEPT ![c] = [NoResult EXCEPT !.ok = IsDoneValue(t)]]
    /\ sawDone' = IF IsDoneValue(t) THEN sawDone \cup {t} ELSE sawDone
    /\ cdone' = [cdone EXCEPT ![c] = done[t] > 0]
    /\ UNCHANGED <<arcVars, taskVars, combVars, cpc, cancelFirst>>

\* ---------------------------------------------------------- combinators
ChanCap   == 1      \* done := make(chan T, 1) in Any
InputSeqs == {[i \in 1..k |-> i] : k \in 0..MaxInputs}

\* no combinator has been called
CombInit ==
    /\ comb = [t \in TaskIds |-> "fn"]
    /\ ins = [t \in TaskIds |-> <<>>]
    /\ acc = [t \in TaskIds |-> <<>>]
    /\ ci = [t \in TaskIds |-> 0]
    /\ hst = [i \in Inputs |-> "none"]
    /\ hval = [i \in Inputs |-> 0]
    /\ buf = <<>>
    /\ order = <<>>

Init == ArcInit /\ TaskInit /\ CallInit /\ CombInit

\* Clone and Drop calls alone, from two goroutines
NextCloneDrop ==
    \E p \in Procs :
        \/ \E h \in Handles : CloneCall(p, h)
        \/ CloneAdd(p)
        \/ CloneRet(p)
        \/ \E h \in Handles : DropCall(p, h)
        \/ DropDec(p)
        \/ DropNil(p)

SpecCloneDrop == Init /\ [][NextCloneDrop]_vars

\* the steps of Clone, Drop, TryUnwrap, Upgrade, With, Deref, GetMut and
\* CompareAndSwap calls already begun by goroutine p
CloneSteps(p) == CloneAdd(p) \/ CloneRet(p)
DropSteps(p) == DropDec(p) \/ DropNil(p)
TryUnwrapSteps(p) ==
    TryUnwrapLoad(p) \/ TryUnwrapCAS(p) \/ TryUnwrapTake(p) \/ TryUnwrapNil(p)
WithSteps(p) == WithAdd(p) \/ WithFn(p) \/ WithDrop(p) \/ WithDec(p) \/ WithNil(p)
DerefSteps(p) == DerefRead(p) \/ DerefRet(p)
CompareAndSwapSteps(p) == CompareAndSwapLoad(p) \/ CompareAndSwapStore(p)

\* Clone, Drop, TryUnwrap, Downgrade and Upgrade calls, from two goroutines
NextWeak ==
    \E p \in Procs :
        \/ \E h \in Handles : CloneCall(p, h)
        \/ CloneSteps(p)
        \/ \E h \in Handles : DropCall(p, h)
        \/ DropSteps(p)
        \/ \E h \in Handles : TryUnwrapCall(p, h)
        \/ TryUnwrapSteps(p)
        \/ \E h \in Handles : Downgrade(p, h)
        \/ DowngradeNew(p)
        \/ \E w \in Weaks : UpgradeAdd(p, w)
        \/ UpgradeCheck(p)

SpecWeak == Init /\ [][NextWeak]_vars

\* Clone, Drop, Downgrade and Upgrade calls, from two goroutines
NextUpgrade ==
    \E p \in Procs :
        \/ \E h \in Handles : CloneCall(p, h)
        \/ CloneSteps(p)
        \/ \E h \in Handles : DropCall(p, h)
        \/ DropSteps(p)
        \/ \E h \in Handles : Downgrade(p, h)
        \/ DowngradeNew(p)
        \/ \E w \in Weaks : UpgradeAdd(p, w)
        \/ UpgradeCheck(p)

SpecUpgrade == Init /\ [][NextUpgrade]_vars

\* Clone, Drop and TryUnwrap calls, from two goroutines
NextUnwrap ==
    \E p \in Procs :
        \/ \E h \in Handles : CloneCall(p, h)
        \/ CloneSteps(p)
        \/ \E h \in Handles : DropCall(p, h)
        \/ DropSteps(p)
        \/ \E h \in Handles : TryUnwrapCall(p, h)
        \/ TryUnwrapSteps(p)

SpecUnwrap == Init /\ [][NextUnwrap]_vars

\* Clone, Drop, GetMut and CompareAndSwap calls, from two goroutines
NextOwner ==
    \E p \in Procs :
        \/ \E h \in Handles : CloneCall(p, h)
        \/ CloneSteps(p)
        \/ \E h \in Handles : DropCall(p, h)
        \/ DropSteps(p)
        \/ \E h \in Handles : GetMutCall(p, h)
        \/ GetMutLoad(p)
        \/ \E h \in Handles, old, new \in Val : CompareAndSwapCall(p, h, old, new)
        \/ CompareAndSwapSteps(p)

SpecOwner == Init /\ [][NextOwner]_vars

\* Clone, Drop and With calls, from two goroutines
NextWith ==
    \E p \in Procs :
        \/ \E h \in Handles : CloneCall(p, h)
        \/ CloneSteps(p)
        \/ \E h \in Handles : DropCall(p, h)
        \/ DropSteps(p)
        \/ \E h \in Handles : WithCall(p, h)
        \/ WithSteps(p)

SpecWith == Init /\ [][NextWith]_vars

\* one goroutine calls TryUnwrap while another calls Clone, Drop, Downgrade,
\* Upgrade and With
Unwrapper == "g1"

NextLoop ==
    \/ \E h \in Handles : TryUnwrapCall(Unwrapper, h)
    \/ TryUnwrapSteps(Unwrapper)
    \/ \E p \in Procs \ {Unwrapper} :
        \/ \E h \in Handles : CloneCall(p, h)
        \/ CloneSteps(p)
        \/ \E h \in Handles : DropCall(p, h)
        \/ DropSteps(p)
        \/ \E h \in Handles : Downgrade(p, h)
        \/ DowngradeNew(p)
        \/ \E w \in Weaks : UpgradeAdd(p, w)
        \/ UpgradeCheck(p)
        \/ \E h \in Handles : WithCall(p, h)
        \/ WithSteps(p)

SpecLoop == Init /\ [][NextLoop]_vars

\* the steps of a call already begun by goroutine p
ArcSteps(p) ==
    \/ CloneSteps(p) \/ DropSteps(p) \/ TryUnwrapSteps(p) \/ DowngradeNew(p)
    \/ UpgradeCheck(p) \/ WithSteps(p)

\* the scheduler runs every goroutine that is inside a call
ArcScheduling == \A p \in Procs : WF_vars(ArcSteps(p))

SpecLoopFair == SpecLoop /\ ArcScheduling

\* one goroutine calls Downgrade, MapArc and MergeArcs while another calls
\* Clone and Drop
Deriver == "g1"

NextDerive ==
    \/ \E h \in Handles : Downgrade(Deriver, h)
    \/ DowngradeNew(Deriver)
    \/ \E h \in Handles : MapArcCall(Deriver, h)
    \/ \E fn \in MapFns : MapArcNew(Deriver, fn)
    \/ \E as \in ArgSeqs : MergeArcsCall(Deriver, as)
    \/ MergeArcsDeref(Deriver)
    \/ MergeArcsRead(Deriver)
    \/ \E v \in Val : NewArcCall(Deriver, v)
    \/ \E vs \in SliceArgs : ArcSliceCall(Deriver, vs)
    \/ ArcSliceNew(Deriver)
    \/ \E p \in Procs \ {Deriver} :
        \/ \E h \in Handles : CloneCall(p, h)
        \/ CloneSteps(p)
        \/ \E h \in Handles : DropCall(p, h)
        \/ DropSteps(p)

SpecDerive == Init /\ [][NextDerive]_vars

\* Clone, Drop, AsRef and Release calls by one goroutine
NextRef ==
    \E p \in {"g1"} :
        \/ \E h \in Handles : CloneCall(p, h)
        \/ CloneSteps(p)
        \/ \E h \in Handles : DropCall(p, h)
        \/ DropSteps(p)
        \/ \E h \in Handles : AsRefCall(p, h)
        \/ AsRefClone(p)
        \/ AsRefAdd(p)
        \/ AsRefRet(p)
        \/ \E r \in Refs : ReleaseCall(p, r)
        \/ ReleaseDrop(p)
        \/ ReleaseDec(p)
        \/ ReleaseNil(p)
        \/ ReleaseClear(p)

SpecRef == Init /\ [][NextRef]_vars

\* Clone, Drop, Reset and Swap calls by one goroutine
NextReset ==
    \E p \in {"g1"} :
        \/ \E h \in Handles : CloneCall(p, h)
        \/ CloneSteps(p)
        \/ \E h \in Handles : DropCall(p, h)
        \/ DropSteps(p)
        \/ \E h \in Handles, v \in Val : ResetCall(p, h, v)
        \/ ResetDrop(p)
        \/ ResetDec(p)
        \/ ResetNil(p)
        \/ ResetNew(p)
        \/ \E h, o \in Handles : SwapCall(p, h, o)
        \/ SwapA(p)
        \/ SwapB(p)

SpecReset == Init /\ [][NextReset]_vars

\* every method, called by one goroutine: the sequential programs
NextSeq ==
    \E p \in {"g1"} :
        \/ \E h \in Handles : CloneCall(p, h)
        \/ CloneSteps(p)
        \/ \E h \in Handles : DerefCall(p, h)
        \/ DerefSteps(p)
        \/ \E h \in Handles : DropCall(p, h)
        \/ DropSteps(p)
        \/ \E h \in Handles : GetMutCall(p, h)
        \/ GetMutLoad(p)
        \/ \E h \in Handles : TryUnwrapCall(p, h)
        \/ TryUnwrapSteps(p)
        \/ \E h \in Handles : Downgrade(p, h)
        \/ DowngradeNew(p)
        \/ \E w \in Weaks : UpgradeAdd(p, w)
        \/ UpgradeCheck(p)
        \/ \E h \in Handles : WithCall(p, h)
        \/ WithSteps(p)
        \/ \E h \in Handles, old, new \in Val : CompareAndSwapCall(p, h, old, new)
        \/ CompareAndSwapSteps(p)
        \/ \E v \in Val : NewArcCall(p, v)
        \/ \E vs \in SliceArgs : ArcSliceCall(p, vs)
        \/ ArcSliceNew(p)

SpecSeq == Init /\ [][NextSeq]_vars

\* New(func() ... { ... }): a combinator constructs its task with
\* context.Background(), around a computation that gets from the inputs
Combine(d, c, is) ==
    /\ d = Derived
    /\ kind[d] = "none"
    /\ \A i \in 1..Len(is) : kind[is[i]] # "none"
    /\ kind' = [kind EXCEPT ![d] = "execute"]
    /\ arity' = [arity EXCEPT ![d] = 1]
    /\ epc' = [epc EXCEPT ![d] = "select"]
    /\ comb' = [comb EXCEPT ![d] = c]
    /\ ins' = [ins EXCEPT ![d] = is]
    /\ UNCHANGED <<parentDone, cancelPc, ctxDone, result, err, done, branch, out,
                   outErr, stored>>
    /\ UNCHANGED <<acc, ci, hst, hval, buf, order>>
    /\ UNCHANGED <<arcVars, callVars>>

\* a step of the computation of a combinator's task that touches neither
\* the task's fields nor the helpers of Any
CombStep(d, pos, a, n, o) ==
    /\ epc' = [epc EXCEPT ![d] = pos]
    /\ acc' = [acc EXCEPT ![d] = a]
    /\ ci' = [ci EXCEPT ![d] = n]
    /\ out' = [out EXCEPT ![d] = o]
    /\ UNCHANGED <<parentDone, cancelPc, kind, arity, ctxDone, result, err, done,
                   branch, outErr, stored>>
    /\ UNCHANGED <<comb, ins, hst, hval, buf, order>>
    /\ UNCHANGED <<arcVars, callVars>>

\* Then(f, fn), Map(f, fn)
Then(d, f) == Combine(d, "Then", <<f>>)

\* result := f.Get()
ThenGet(d) ==
    /\ epc[d] = "fn" /\ comb[d] = "Then"
    /\ done[ins[d][1]] > 0
    /\ CombStep(d, "apply", <<result[ins[d][1]][1]>>, 1, out[d])

\* return fn(result): fn is any function
ThenApply(d, v) ==
    /\ epc[d] = "apply" /\ comb[d] = "Then"
    /\ CombStep(d, "store", acc[d], ci[d], <<v, 0, 0>>)

\* All(futures...)
All(d, is) == Combine(d, "All", is)

\* results := make([]T, len(futures))
AllMake(d) ==
    /\ epc[d] = "fn" /\ comb[d] = "All"
    /\ CombStep(d, "loop", [i \in 1..Len(ins[d]) |-> 0], 0, out[d])

\* an All that fills the slice from its end
AllGetReversed(d) ==
    /\ epc[d] = "loop" /\ comb[d] = "All"
    /\ ci[d] < Len(ins[d])
    /\ done[ins[d][ci[d] + 1]] > 0
    /\ CombStep(d, "loop",
                [acc[d] EXCEPT ![Len(ins[d]) - ci[d]] = result[ins[d][ci[d] + 1]][1]],
                ci[d] + 1, out[d])

\* for i, f := range futures { results[i] = f.Get() }
AllGet(d) ==
    /\ epc[d] = "loop" /\ comb[d] = "All"
    /\ ci[d] < Len(ins[d])
    /\ done[ins[d][ci[d] + 1]] > 0
    /\ CombStep(d, "loop",
                [acc[d] EXCEPT ![ci[d] + 1] = result[ins[d][ci[d] + 1]][1]],
                ci[d] + 1, out[d])

\* return results
AllReturn(d) ==
    /\ epc[d] = "loop" /\ comb[d] = "All"
    /\ ci[d] = Len(ins[d])
    /\ CombStep(d, "store", acc[d], ci[d], <<acc[d], 0, 0>>)

\* Any(futures...)
AnyOf(d, is) == Combine(d, "Any", is)

\* done := make(chan T, 1); for _, f := range futures { go func(...) }
AnyGo(d) ==
    /\ epc[d] = "fn" /\ comb[d] = "Any"
    /\ epc' = [epc EXCEPT ![d] = "recv"]
    /\ hst' = [i \in Inputs |-> IF i <= Len(ins[d]) THEN "get" ELSE "none"]
    /\ UNCHANGED <<parentDone, cancelPc, kind, arity, ctxDone, result, err, done,
                   branch, out, outErr, stored>>
    /\ UNCHANGED <<comb, ins, acc, ci, hval, buf, order>>
    /\ UNCHANGED <<arcVars, callVars>>

\* the helper of the i-th input: future.Get() returns
HelperGet(i) ==
    /\ hst[i] = "get"
    /\ done[ins[Derived][i]] > 0
    /\ hval' = [hval EXCEPT ![i] = result[ins[Derived][i]][1]]
    /\ hst' = [hst EXCEPT ![i] = "send"]
    /\ UNCHANGED <<comb, ins, acc, ci, buf, order>>
    /\ UNCHANGED <<arcVars, taskVars, callVars>>

\* the helper of the i-th input: done <- value, while the buffer has room
HelperSend(i) ==
    /\ hst[i] = "send"
    /\ Len(buf) < ChanCap
    /\ buf' = Append(buf, hval[i])
    /\ hst' = [hst EXCEPT ![i] = "exit"]
    /\ UNCHANGED <<comb, ins, acc, ci, hval, order>>
    /\ UNCHANGED <<arcVars, taskVars, callVars>>

\* return <-done
AnyRecv(d) ==
    /\ epc[d] = "recv" /\ comb[d] = "Any"
    /\ buf # <<>>
    /\ epc' = [epc EXCEPT ![d] = "store"]
    /\ out' = [out EXCEPT ![d] = <<Head(buf), 0, 0>>]
    /\ buf' = Tail(buf)
    /\ UNCHANGED <<parentDone, cancelPc, kind, arity, ctxDone, result, err, done,
                   branch, outErr, stored>>
    /\ UNCHANGED <<comb, ins, acc, ci, hst, hval, order>>
    /\ UNCHANGED <<arcVars, callVars>>

\* task t is constructed, cancelled, or its goroutine takes a step
RunTask(t) ==
    \/ \E n \in Arities : NewWithContext(t, n)
    \/ \E n \in Arities : NewWithContextE(t, n)
    \/ Cancel(t)
    \/ ExecSelect(t)
    \/ ExecCancelled(t)
    \/ \E v1, v2, v3 \in FnVals, e \in {NoErr, Failed} : ExecFn(t, v1, v2, v3, e)
    \/ ExecStore(t)
    \/ ExecStoreErr(t)
    \/ ExecClose(t)

\* tasks constructed in a scope, cancelled and run
NextTask ==
    \/ \E t \in Tasks : RunTask(t)
    \/ CancelParentSteps

SpecTask == Init /\ [][NextTask]_vars

\* the steps of the execute goroutine of task t other than fn itself, which
\* need not return
ExecSteps(t) ==
    \/ ExecSelect(t)
    \/ ExecCancelled(t)
    \/ ExecStore(t)
    \/ ExecStoreErr(t)
    \/ ExecClose(t)

\* the steps of futureImpl.execute outside fn: no error slot to store
ExecuteSteps(t) ==
    \/ ExecSelect(t)
    \/ ExecCancelled(t)
    \/ ExecStore(t)
    \/ ExecClose(t)

\* the steps of a retrieval call that has received from a channel
CallerSteps(c) == ReadSlot(c) \/ Return(c)

\* the scheduler runs every goroutine that can take a step
Scheduling ==
    /\ \A t \in Tasks : WF_vars(ExecSteps(t))
    /\ WF_vars((\E t \in TaskIds : CancelChild(t)) \/ CancelParentReturn)
    /\ \A c \in Callers : WF_vars(CallerSteps(c))

\* the calls of the retrieval methods and their steps
Retrieve ==
    \E c \in Callers :
        \/ \E t \in Tasks : GetCall(c, t)
        \/ \E t \in Tasks : ErrorCall(c, t)
        \/ \E t \in Tasks : WaitCall(c, t)
        \/ \E t \in Tasks : GetWithTimeoutCall(c, t)
        \/ \E t \in Tasks : WaitForCall(c, t)
        \/ \E t \in Tasks : IsDone(c, t)
        \/ TimerFires(c)
        \/ ReadSlot(c)
        \/ Return(c)

\* one task constructed, cancelled and run, and callers retrieving from it
NextRetrieve == RunTask(1) \/ CancelParentSteps \/ Retrieve

SpecRetrieve == Init /\ [][NextRetrieve]_vars

SpecRetrieveFair == SpecRetrieve /\ Scheduling

\* the state in which the specifications of the combinators start: the
\* cell of NewArc holds the zero value
InitTasks == Init /\ data[1] = 0

\* input task i of a combinator: a task of one slot is constructed around
\* a computation without an error return, cancelled, or its goroutine
\* takes a step
RunInput(i) ==
    \/ NewWithContext(i, 1)
    \/ Cancel(i)
    \/ ExecuteSteps(i)
    \/ \E v \in FnVals : ExecFn(i, v, v, v, NoErr)

\* the same, around a computation with or without an error return
RunInputE(i) ==
    \/ NewWithContextE(i, 1)
    \/ RunInput(i)
    \/ \E v \in FnVals : ExecFn(i, v, v, v, Failed)
    \/ ExecStoreErr(i)

\* the task of a combinator is cancelled, or its goroutine takes a step
\* outside its computation
RunDerived(d) == Cancel(d) \/ ExecuteSteps(d)

\* All over the inputs made so far
NextAll ==
    \/ \E i \in Inputs : RunInput(i)
    \/ \E is \in InputSeqs : All(Derived, is)
    \/ AllMake(Derived)
    \/ AllGet(Derived)
    \/ AllReturn(Derived)
    \/ RunDerived(Derived)

SpecAll == InitTasks /\ [][NextAll]_vars

\* Any over the inputs made so far
NextAny ==
    \/ \E i \in Inputs : RunInput(i)
    \/ \E is \in InputSeqs : AnyOf(Derived, is)
    \/ AnyGo(Derived)
    \/ \E i \in Inputs : HelperGet(i)
    \/ \E i \in Inputs : HelperSend(i)
    \/ AnyRecv(Derived)
    \/ RunDerived(Derived)

SpecAny == InitTasks /\ [][NextAny]_vars

\* the steps of the goroutine of the task Any returns, and of the helper
\* goroutine of its i-th input
AnySteps(d) == ExecuteSteps(d) \/ AnyGo(d) \/ AnyRecv(d)
HelperSteps(i) == HelperGet(i) \/ HelperSend(i)

\* the scheduler runs those goroutines whenever they can take a step
AnyScheduling ==
    /\ WF_vars(AnySteps(Derived))
    /\ \A i \in Inputs : WF_vars(HelperSteps(i))

SpecAnyFair == SpecAny /\ AnyScheduling

\* Then (or Map) over one of the inputs, whose computations may fail
NextThen ==
    \/ \E i \in Inputs : RunInputE(i)
    \/ \E i \in Inputs : Then(Derived, i)
    \/ ThenGet(Derived)
    \/ \E v \in FnVals : ThenApply(Derived, v)
    \/ RunDerived(Derived)

SpecThen == InitTasks /\ [][NextThen]_vars

\* the tasks constructed with one scope, and the scope's cancellation
NextScope ==
    \/ \E i \in Inputs : RunInputE(i)
    \/ CancelParentSteps

SpecScope == InitTasks /\ [][NextScope]_vars

\* ------------------------------------------------------------------ claims
Quiet == \A p \in Procs : pc[p] = "idle"

\* C1: with Clone and Drop calls alone, once every call has returned the
\* count is (clones + 1) - (drops), clones being the handles Clone made and
\* drops the Drop calls that passed the nil check, and a Drop observes a
\* post-decrement value of zero at most once.
C1_CountAndSingleRelease ==
    /\ Quiet => ref[1] = (nh - 1) + 1 - ndrops
    /\ nzero <= 1

\* C2: an Upgrade that begins once the block's count has reached zero never
\* passes its liveness check, whatever runs beside it.
C2_NoResurrection ==
    \A p \in Procs : pc[p] = "up_check" /\ dead[p] => ~UpgradeAlive(current[p])

\* C3: of the TryUnwrap calls racing on the block, at most one is past a
\* successful compare-and-swap (holds the unwrapped value).
C3_OneUnwrapWins ==
    Cardinality({p \in Procs : pc[p] \in {"tu_take", "tu_nil"}}) <= 1

\* C4: no call passes its nil check on a handle on which Drop has returned:
\* such a call ends at once with the unavailable outcome.
C4_DroppedHandleUnusable ==
    \A p \in Procs : ~late[p]

\* C5: the strong count of a block is never negative.
C5_CountNeverNegative ==
    \A b \in Blocks : ref[b] >= 0

\* C6: a Downgrade that makes a Weak changes no count, and the Weak is on
\* the block of its Arc unless the Arc's pointer was cleared meanwhile, which
\* takes a count that has reached zero; an Upgrade on a weak handle whose
\* block has not reached zero finds an incremented count above 1 and returns
\* a new handle on the weak's block, the count staying one higher than it
\* found it.
C6_UpgradeOfLiveBlock ==
    /\ [](\A p \in Procs : pc[p] = "up_check" /\ ~dead[p] => current[p] > 1)
    /\ [][/\ nw' = nw + 1 =>
                /\ \E p \in Procs :
                      /\ pc[p] = "dg_new"
                      /\ ptr[self[p]] # NilPtr => wptr'[nw + 1] = ptr[self[p]]
                /\ wptr'[nw + 1] = NilPtr => zeroed # {}
                /\ ref' = ref
           /\ \A p \in Procs :
                /\ pc[p] = "idle" /\ pc'[p] = "up_check" =>
                    /\ internal'[p] = wptr[self'[p]]
                    /\ ref'[internal'[p]] = ref[internal'[p]] + 1
                    /\ current'[p] = ref'[internal'[p]]
                /\ pc[p] = "up_check" /\ ~dead[p] /\ pc'[p] = "idle" =>
                    /\ ret'[p] = "value"
                    /\ nh' = nh + 1
                    /\ ptr'[nh + 1] = wptr[self[p]]
                    /\ ptr'[nh + 1] = internal[p]
                    /\ ref' = ref]_vars

C6_Witness ==
    \E p, q \in Procs :
        /\ pc[p] = "up_check" /\ ~dead[p] /\ current[p] = 3
        /\ pc[q] = "clone_ret"

\* C7: while fn runs inside With, called on a handle that was not dropped
\* and whose block was not released, the count is at least 1 and the block
\* has not been released.
C7_WithKeepsBlock ==
    \A p \in Procs :
        pc[p] = "with_fn" /\ ~late[p] /\ ~dead[p] =>
            ref[internal[p]] >= 1 /\ internal[p] \notin zeroed

\* C8: GetMut returns the reference, and CompareAndSwap goes on to store
\* newValue and return true, exactly when the count the call loads is 1;
\* otherwise they return nil / false; only the store changes the value, to
\* newValue, and no step of either changes the count.
C8_SoleOwnerGate ==
    [][\A p \in Procs :
        /\ pc[p] = "getmut_load" /\ pc'[p] = "idle" =>
            /\ ret'[p] = "value" <=> ref[internal[p]] = 1
            /\ ret'[p] = "nil" <=> ref[internal[p]] # 1
            /\ ref' = ref /\ data' = data
        /\ pc[p] = "cas_load" /\ pc'[p] # "cas_load" =>
            /\ pc'[p] = "cas_store" <=> ref[internal[p]] = 1
            /\ pc'[p] = "idle" => ret'[p] = "nil"
            /\ ref' = ref /\ data' = data
        /\ pc[p] = "cas_store" /\ pc'[p] = "idle" =>
            /\ ret'[p] = "value"
            /\ data'[internal[p]] = arg[p]
            /\ ref' = ref]_vars

C8_Witness ==
    \E p, q \in Procs :
        /\ pc[p] = "cas_store" /\ arg[p] # data[internal[p]]
        /\ pc[q] = "cas_load" /\ ref[internal[q]] = 2

\* C9: a TryUnwrap that returns false after loading the count loaded a
\* count other than 1, and its return leaves the count, the value and
\* every handle, its own included, as they were.
C9_FailedUnwrapKeepsHandle ==
    [][\A p \in Procs :
        pc[p] = "tu_load" /\ pc'[p] = "idle" =>
            /\ ref[internal[p]] # 1
            /\ ret'[p] = "nil"
            /\ ref' = ref /\ data' = data /\ ptr' = ptr
            /\ ptr'[self[p]] # NilPtr => ptr'[self[p]] = internal[p]]_vars

\* a TryUnwrap that loaded 1, lost its compare-and-swap to a Clone, and is
\* about to load 2 and fail, its handle still on the block
C9_Witness ==
    \E p \in Procs :
        /\ pc[p] = "tu_load" /\ current[p] = 1 /\ ref[internal[p]] = 2
        /\ ptr[self[p]] = internal[p]

\* C10: a task goes from Pending to Completed or to Cancelled and stays
\* there: close(f.done) runs at most once, it runs when the result slots
\* and the error field hold their final values, and after it neither the
\* slots, the error field, the signal nor the state change.
C10_TaskStateMachine ==
    /\ [](\A t \in Tasks :
            /\ done[t] <= 1
            /\ done[t] = 1 => result[t] = FinalResult(t) /\ err[t] = FinalErr(t))
    /\ [][\A t \in Tasks :
            /\ TaskState(t) = "Pending" /\ TaskState(t)' # "Pending" =>
                /\ TaskState(t)' \in {"Completed", "Cancelled"}
                /\ result[t] = FinalResult(t) /\ err[t] = FinalErr(t)
                /\ result'[t] = result[t] /\ err'[t] = err[t]
            /\ TaskState(t) # "Pending" =>
                /\ TaskState(t)' = TaskState(t)
                /\ done'[t] = done[t]
                /\ result'[t] = result[t] /\ err'[t] = err[t]]_vars

\* a task that ran a computation of three values, was cancelled on the
\* way, and has raised its completion signal
C10_Witness ==
    \E t \in Tasks :
        /\ TaskState(t) = "Completed" /\ arity[t] = 3 /\ ctxDone[t]
        /\ result[t] = <<1, 2, 1>> /\ epc[t] = "exit"

\* C11: once an IsDone call on a task has returned true, every IsDone call
\* on it returns true; from then on the result slots and the error field hold
\* their final values and do not change, and what Get, GetWithTimeout (with
\* true) and Error return, slot by slot, are those final values.
C11_IsDoneMonotonic ==
    /\ [](\A t \in sawDone :
            /\ IsDoneValue(t)
            /\ result[t] = FinalResult(t) /\ err[t] = FinalErr(t))
    /\ [](\A c \in Callers :
            /\ cpc[c] = "done" /\ cop[c] \in {"Get", "GetWithTimeout"} =>
                \A i \in 1..cn[c] : cret[c].res[i] = FinalResult(ctask[c])[i]
            /\ cpc[c] = "idle" /\ cret[c].ok /\ cop[c] \in {"Get", "GetWithTimeout"} =>
                cret[c].res = FinalResult(ctask[c])
            /\ cpc[c] = "idle" /\ cop[c] = "Error" =>
                cret[c].err = FinalErr(ctask[c]))
    /\ [][\A t \in sawDone :
            /\ IsDoneValue(t)'
            /\ result'[t] = result[t] /\ err'[t] = err[t]]_vars

\* a caller saw IsDone return true on a task of three slots and then read
\* the three values with Get
C11_Witness ==
    \E c \in Callers :
        /\ cpc[c] = "idle" /\ cop[c] = "Get" /\ ctask[c] \in sawDone
        /\ arity[ctask[c]] = 3 /\ cret[c].res = <<2, 1, 2>>

\* C12: a task whose context is cancelled, by Cancel or by its scope, when
\* its goroutine reaches the select never runs fn: it stores the
\* cancellation error, leaves the slots zero and raises the completion
\* signal; Error then returns the cancellation error and Get the zero
\* values, and a caller parked on the task returns.
C12_CancelBeforeStart ==
    /\ [][\A t \in Tasks :
            epc[t] = "select" /\ ctxDone[t] /\ epc'[t] # "select" =>
                branch'[t] = "cancel"]_vars
    /\ [](\A t \in Tasks : branch[t] = "cancel" =>
            /\ epc[t] \in {"store_cancel", "close", "exit"}
            /\ out[t] = ZeroResult /\ result[t] = ZeroResult
            /\ done[t] > 0 => err[t] = Canceled)
    /\ [](\A c \in Callers :
            cpc[c] = "idle" /\ branch[ctask[c]] = "cancel" =>
                /\ cop[c] = "Error" => cret[c].err = Canceled
                /\ cop[c] = "Get" => cret[c].res = ZeroResult)
    /\ \A t \in Tasks : (epc[t] = "select" /\ ctxDone[t]) ~> (done[t] = 1)
    /\ \A c \in Callers :
            (cpc[c] = "parked" /\ branch[ctask[c]] = "cancel") ~> (cpc[c] = "idle")

\* Error has returned the cancellation error of a task of two slots that
\* was constructed in a cancelled scope
C12_Witness ==
    \E c \in Callers :
        /\ cpc[c] = "idle" /\ cop[c] = "Error" /\ cret[c].err = Canceled
        /\ branch[ctask[c]] = "cancel" /\ arity[ctask[c]] = 2 /\ parentDone

\* C13: a retrieval call that begins on a task that completed and was
\* cancelled afterwards, or never, does what it does on a completed task
\* that was never cancelled: it never takes the case of ctx.Done(); Get,
\* Error, Wait and IsDone return true, the stored slots, the stored error,
\* and so does a call with a timeout unless its timer has fired; the Cancel
\* changes neither slots nor error.
C13_CancelAfterCompletion ==
    \A c \in Callers :
        /\ cop[c] # "none" /\ cdone[c]
        /\ TaskState(ctask[c]) = "Completed" /\ ~cancelFirst[ctask[c]]
        => /\ result[ctask[c]] = FinalResult(ctask[c])
           /\ err[ctask[c]] = FinalErr(ctask[c])
           /\ cpc[c] \in {"done", "timer", "idle"}
           /\ cpc[c] = "timer" => cop[c] \in Selecting
           /\ cpc[c] = "idle" =>
                /\ cop[c] \notin Selecting => cret[c].ok
                /\ cret[c].ok /\ cop[c] \in {"Get", "GetWithTimeout"} =>
                       cret[c].res = result[ctask[c]]
                /\ cop[c] = "Error" => cret[c].err = err[ctask[c]]

\* C14: GetWithTimeout and Wait with a duration return true, and
\* GetWithTimeout the stored slots, only after the completion signal; a
\* call that begins when the signal is already raised returns true if the
\* signal was raised before the context was cancelled and false (with zero
\* values) if the context was cancelled first.
C14_TimeoutRace ==
    \A c \in Callers :
        cpc[c] = "idle" /\ cop[c] \in Selecting =>
            /\ cret[c].ok => done[ctask[c]] > 0
            /\ cret[c].ok /\ cop[c] = "GetWithTimeout" =>
                   cret[c].res = FinalResult(ctask[c])
            /\ ~cret[c].ok => cret[c].res = ZeroResult
            /\ cdone[c] /\ ~cancelFirst[ctask[c]] => cret[c].ok
            /\ cdone[c] /\ cancelFirst[ctask[c]] => ~cret[c].ok

\* C15: a caller parked in a retrieval call on a task whose context is
\* cancelled returns, whether or not fn ever returns.
C15_CancelUnblocks ==
    \A c \in Callers :
        (cpc[c] = "parked" /\ ctxDone[ctask[c]]) ~> (cpc[c] = "idle")

\* C16: the task All returns raises its completion signal, after running
\* its computation, only when every input has raised its own, and its
\* result is then the slice of the inputs' results in input order, whatever
\* the order in which the inputs completed.
C16_AllInInputOrder ==
    comb[Derived] = "All" /\ TaskState(Derived) = "Completed" =>
        /\ \A i \in 1..Len(ins[Derived]) : done[ins[Derived][i]] > 0
        /\ result[Derived][1] =
               [i \in 1..Len(ins[Derived]) |-> result[ins[Derived][i]][1]]

\* All over every input has completed; the last input completed first and
\* the results differ
C16_Witness ==
    /\ comb[Derived] = "All" /\ TaskState(Derived) = "Completed"
    /\ Len(ins[Derived]) = MaxInputs
    /\ order[1] = MaxInputs
    /\ result[Derived][1][1] = 1 /\ result[Derived][1][MaxInputs] = 2

\* the inputs of the combinator's task in the order in which they raised
\* their completion signals
InputOrder == SelectSeq(order, LAMBDA t : \E i \in 1..Len(ins[Derived]) : ins[Derived][i] = t)

\* C17: the task Any returns completes with the result of the input that
\* raised its completion signal first.
C17_AnyFirstCompleted ==
    comb[Derived] = "Any" /\ TaskState(Derived) = "Completed" =>
        /\ InputOrder # <<>>
        /\ result[Derived][1] = result[InputOrder[1]][1]

\* C18: when the task of a combinator has completed after getting from an
\* input that ended with an error (its computation's or the cancellation
\* error), the task's own error field holds an error, the input's.
C18_CombinatorsPropagate ==
    comb[Derived] # "fn" /\ TaskState(Derived) = "Completed" =>
        \A i \in 1..ci[Derived] :
            err[ins[Derived][i]] # NoErr =>
                /\ err[Derived] # NoErr
                /\ \E j \in 1..ci[Derived] : err[Derived] = err[ins[Derived][j]]

\* C19: once the cancel function of the scope has returned, the context of
\* every task constructed with the scope is cancelled, of those constructed
\* later too; a task whose context is cancelled before its goroutine
\* passes its select skips fn and ends Cancelled with the cancellation
\* error; Cancel on a task cancels neither the scope nor any other task.
C19_CancellationHierarchy ==
    /\ [](cancelPc = "returned" =>
            parentDone /\ \A i \in Inputs : kind[i] # "none" => ctxDone[i])
    /\ [][\A i \in Inputs :
            /\ /\ epc[i] = "select" /\ epc'[i] # "select"
               /\ ctxDone[i] \/ cancelPc = "returned"
               => branch'[i] = "cancel"
            /\ kind[i] = "none" /\ kind'[i] # "none" =>
                  ctxDone'[i] = parentDone]_vars
    /\ [](\A i \in Inputs : branch[i] = "cancel" =>
            /\ epc[i] \in {"store_cancel", "close", "exit"}
            /\ out[i] = ZeroResult
            /\ done[i] > 0 => TaskState(i) = "Cancelled" /\ err[i] = Canceled)
    /\ [][\A i \in Inputs :
            Cancel(i) =>
                /\ ctxDone'[i]
                /\ parentDone' = parentDone /\ cancelPc' = cancelPc
                /\ \A j \in Inputs \ {i} : ctxDone'[j] = ctxDone[j]]_vars

\* the scope was cancelled with one task inside fn and another not yet
\* started: the first completed, the second ended Cancelled
C19_Witness ==
    /\ parentDone /\ cancelPc = "returned"
    /\ \E i, j \in Inputs :
          /\ TaskState(i) = "Completed" /\ result[i][1] = 2
          /\ TaskState(j) = "Cancelled" /\ err[j] = Canceled
          /\ cancelFirst[i] /\ i < j

\* the handles made on which no Drop call has returned
LiveHandles == {h \in 1..nh : h \notin dropped}

\* C20: an Upgrade that passes its nil check increments the count once; when
\* it returns nil it has decremented it once and made no handle; and when a
\* failed Upgrade returns with no other call in flight, the count equals the
\* number of live strong handles.
C20_FailedUpgradeRolledBack ==
    [][\A p \in Procs :
          /\ pc[p] = "idle" /\ pc'[p] = "up_check" =>
                ref'[internal'[p]] = ref[internal'[p]] + 1
          /\ pc[p] = "up_check" /\ pc'[p] = "idle" /\ ret'[p] = "nil" =>
                /\ ref'[internal[p]] = ref[internal[p]] - 1
                /\ nh' = nh /\ ptr' = ptr
                /\ Quiet' => ref'[internal[p]] = Cardinality(LiveHandles')]_vars

\* goroutine p is inside a TryUnwrap call
InUnwrap(p) == pc[p] \in {"tu_load", "tu_cas", "tu_take", "tu_nil"}

\* C21: TryUnwrap goes back to its load only after it loaded 1 and its
\* compare-and-swap found the count changed; a goroutine inside a call can
\* always take its next step, whatever the others do; and when the other
\* goroutine starts only finitely many calls, every TryUnwrap call returns.
C21_TryUnwrapTerminates ==
    /\ [][pc[Unwrapper] = "tu_cas" /\ pc'[Unwrapper] = "tu_load" =>
              current[Unwrapper] = 1 /\ ref[internal[Unwrapper]] # 1]_vars
    /\ [](\A p \in Procs : pc[p] # "idle" => ENABLED ArcSteps(p))
    /\ (<>[](\A q \in Procs \ {Unwrapper} : pc[q] = "idle")) =>
           (InUnwrap(Unwrapper) ~> pc[Unwrapper] = "idle")

\* TryUnwrap is back at its load after a failed compare-and-swap: a Clone
\* took the count from 1 to 2 in between
C21_Witness ==
    /\ pc[Unwrapper] = "tu_load"
    /\ current[Unwrapper] = 1
    /\ ref[internal[Unwrapper]] = 2

\* C23: a task whose select took the default case keeps that branch
\* whatever is cancelled afterwards: it never stores the cancellation
\* error, and when it has raised its completion signal it is Completed, its
\* slots hold what fn returned, its error is nil unless fn returned one, Get
\* returns what fn returned and Error, for a computation without an error
\* return, returns nil.
C23_CancelNotPreemptive ==
    /\ [][\A t \in Tasks :
            branch[t] = "default" =>
                /\ branch'[t] = "default"
                /\ epc'[t] # "store_cancel"
                /\ err'[t] # Canceled]_vars
    /\ [](\A t \in Tasks :
            branch[t] = "default" /\ ctxDone[t] /\ done[t] > 0 =>
                /\ TaskState(t) = "Completed"
                /\ result[t] = out[t]
                /\ err[t] = outErr[t]
                /\ kind[t] = "execute" => err[t] = NoErr)
    /\ [](\A c \in Callers :
            /\ cpc[c] = "idle" /\ cop[c] \in {"Get", "Error"}
            /\ branch[ctask[c]] = "default" /\ ctxDone[ctask[c]]
            => /\ cop[c] = "Get" => cret[c].ok /\ cret[c].res = out[ctask[c]]
               /\ cop[c] = "Error" /\ kind[ctask[c]] = "execute" =>
                      cret[c].err = NoErr)

\* Get has returned the two values of a computation whose context was
\* cancelled between its select and its completion signal
C23_Witness ==
    \E c \in Callers :
        /\ cpc[c] = "idle" /\ cop[c] = "Get" /\ cret[c].res = <<2, 1, 0>>
        /\ branch[ctask[c]] = "default" /\ cancelFirst[ctask[c]]
        /\ arity[ctask[c]] = 2 /\ TaskState(ctask[c]) = "Completed"

\* the combinator's task exists and every one of its inputs has raised its
\* completion signal
InputsCompleted ==
    /\ kind[Derived] # "none"
    /\ \A i \in 1..Len(ins[Derived]) : done[ins[Derived][i]] > 0

\* C24: once every input of a combinator's task has completed, the task
\* raises its completion signal and every helper goroutine of Any exits.
C24_CombinatorsComplete ==
    /\ InputsCompleted ~> (done[Derived] > 0)
    /\ InputsCompleted ~> (\A i \in Inputs : hst[i] \in {"none", "exit"})

\* C22: a Downgrade that makes a Weak, and every step of MapArc and of
\* MergeArcs, leaves the count and the value of every existing block and
\* the pointer of every existing Arc as they are; when MapArc or MergeArcs
\* returns an Arc, it is a new Arc on a block that did not exist, nothing
\* else points to that block, and its count is 1; MapArc's block holds the
\* transform of the source's value and MergeArcs' block the values of its
\* sources in argument order, the zero value standing for a nil pointer.
C22_DerivedLeaveSources ==
    [][/\ nw' = nw + 1 =>
            ref' = ref /\ data' = data /\ ptr' = ptr /\ nh' = nh /\ nb' = nb
       /\ \/ pc[Deriver] \in {"map_new", "merge_deref", "merge_read"}
          \/ pc'[Deriver] \in {"map_new", "merge_deref", "merge_read"}
          => /\ pc'[Deriver] # pc[Deriver] \/ idx'[Deriver] # idx[Deriver] =>
                  /\ \A b \in 1..nb : ref'[b] = ref[b] /\ data'[b] = data[b]
                  /\ \A h \in 1..nh : ptr'[h] = ptr[h]
                  /\ wptr' = wptr
             /\ pc'[Deriver] = "idle" /\ ret'[Deriver] = "value" =>
                  /\ nb' = nb + 1 /\ nh' = nh + 1
                  /\ ptr'[nh + 1] = nb + 1
                  /\ ref'[nb + 1] = 1
                  /\ \A h \in 1..nh : ptr'[h] # nb + 1
                  /\ \A w \in Weaks : wptr'[w] # nb + 1
                  /\ pc[Deriver] = "map_new" =>
                        \E fn \in MapFns :
                            data'[nb + 1] = fn[data[internal[Deriver]]]
                  /\ pc[Deriver] = "merge_deref" =>
                        /\ Len(data'[nb + 1]) = Len(arcs[Deriver])
                        /\ \A i \in 1..Len(arcs[Deriver]) :
                             IF arcs[Deriver][i] = 0
                             THEN data'[nb + 1][i] = 0
                             ELSE ptr[arcs[Deriver][i]] # NilPtr =>
                                    data'[nb + 1][i] = data[ptr[arcs[Deriver][i]]]]_vars

\* MergeArcs has returned an Arc on a new block that lists the value of an
\* Arc made by MapArc and then the different value of its source
C22_Witness ==
    /\ pc[Deriver] = "idle" /\ ret[Deriver] = "value"
    /\ \E b \in merged :
          /\ ref[b] = 1 /\ data[b] = <<1, 0>>
          /\ \E h \in 1..nh : ptr[h] = b

\* the Refs that hold no Arc
Released == {r \in 1..nr : rarc[r] = 0}

\* C25: of the steps of AsRef only the increment changes a count, by one;
\* of the steps of Release only the decrement does, by one, and Release
\* clears no pointer but that of the Ref's own Arc; Release on a Ref that
\* holds no Arc changes nothing; so with no Drop called and every call
\* returned, the count is the number of Arcs made less one for every Ref
\* released, however often, and the first Arc still points to the block.
C25_RefBalanced ==
    /\ [][\A p \in Procs :
            /\ pc[p] \in {"asref_clone", "asref_add", "asref_ret"} =>
                  /\ data' = data /\ \A h \in 1..nh : ptr'[h] = ptr[h]
                  /\ IF pc[p] = "asref_add"
                     THEN ref' = [ref EXCEPT ![internal[p]] = ref[internal[p]] + 1]
                     ELSE ref' = ref
            /\ pc[p] \in {"rel_drop", "rel_dec", "rel_nil", "rel_clear"} =>
                  /\ data' = data
                  /\ \A h \in Handles \ {self[p]} : ptr'[h] = ptr[h]
                  /\ IF pc[p] = "rel_dec"
                     THEN ref' = [ref EXCEPT ![internal[p]] = ref[internal[p]] - 1]
                     ELSE ref' = ref
            /\ \A r \in Refs :
                  ReleaseCall(p, r) /\ rarc[r] = 0 =>
                      UNCHANGED <<arcShared, extShared>>]_vars
    /\ [](Quiet /\ ndrops = 0 =>
            /\ ref[1] = nh - Cardinality(Released)
            /\ ptr[1] = 1)

\* two AsRef calls on the first Arc, and both Refs released: the count is
\* back at 1
C25_Witness ==
    /\ Quiet /\ ndrops = 0
    /\ nr = 2 /\ Released = {1, 2}
    /\ nh = 3 /\ ref[1] = 1 /\ ptr[1] = 1

\* the Arcs that own a unit of block b: made, not released by Drop, pointing
\* to b
Holders(b) == {h \in 1..nh \ dropped : ptr[h] = b}

\* C26: Reset on an Arc takes one off the old block's count, changes no
\* other Arc's pointer and no existing block's value, leaves an old block
\* that other Arcs hold with a positive count, and ends with the Arc on a
\* block no Arc pointed to, with count 1 and the value given; Swap changes no
\* count and no value and exchanges the two pointers; no step of a Swap
\* with an Arc that Drop has released changes a count, a value or a pointer.
C26_ResetAndSwap ==
    /\ [][\A p \in Procs :
            /\ pc[p] \in {"reset_drop", "reset_dec", "reset_nil"} =>
                  /\ data' = data /\ nb' = nb
                  /\ \A h \in Handles \ {self[p]} : ptr'[h] = ptr[h]
                  /\ IF pc[p] = "reset_dec"
                     THEN /\ ref' = [ref EXCEPT ![internal[p]] = ref[internal[p]] - 1]
                          /\ Holders(internal[p]) \ {self[p]} # {} =>
                                 ref'[internal[p]] >= 1
                     ELSE ref' = ref
            /\ pc[p] = "reset_new" =>
                  /\ \A h \in Handles : ptr[h] # nb + 1
                  /\ ptr' = [ptr EXCEPT ![self[p]] = nb + 1]
                  /\ ref' = [ref EXCEPT ![nb + 1] = 1]
                  /\ data' = [data EXCEPT ![nb + 1] = arg[p]]
            /\ pc[p] = "swap_a" =>
                  /\ ref' = ref /\ data' = data
                  /\ temp[p] = ptr[self[p]]
                  /\ ptr' = [ptr EXCEPT ![self[p]] = ptr[other[p]]]
            /\ pc[p] = "swap_b" =>
                  /\ ref' = ref /\ data' = data
                  /\ ptr' = [ptr EXCEPT ![other[p]] = temp[p]]
            /\ \A h, o \in Handles :
                  SwapCall(p, h, o) /\ (h \in dropped \/ o \in dropped) =>
                      UNCHANGED <<arcShared, extShared>>
            /\ pc[p] \in {"swap_a", "swap_b"} /\ late[p] =>
                  UNCHANGED <<arcShared, extShared>>]_vars
    /\ [](Quiet => \A h \in 1..nh \ dropped : ptr[h] \in 1..nb)

=============================================================================
